---- MODULE Spec2Model ----
(***************************************************************************)
(* Family bill tracker: bill status derivation, recurrence resolution,     *)
(* sorting, and the autopay scheduler of the dashboard component (App),    *)
(* with the store behind it (families/<f>/bills/<id>) and its feed.        *)
(*                                                                         *)
(* Strings whose content the program inspects (due dates, periods, names,  *)
(* ids, processed keys) are sequences of one-character strings.  A field   *)
(* that is "string | null" holds Null for null.  An optional number        *)
(* (dayOfMonth) is a set: {} for null, {n} for the number n.               *)
(* A Date is a record [y, m, d, h]: m is the 0-based month of JS, h the    *)
(* hour of day; getTime() is measured in hours.                            *)
(* unpaidByUser is history: the bills the user set to unpaid for their     *)
(* current period since the family last changed, and whether the write of  *)
(* that click has reached the store.                                       *)
(***************************************************************************)
EXTENDS Integers, Sequences, FiniteSets, TLC

VARIABLES now, viewedMonthDate, familyId, bills, store, processedKeys, passes, toggles, statusBusyBillId, billError, sortedBills, clicks, issuedKeys, dupIssued, failedKeys, scanDone, lastEvent, unpaidByUser

\* The add-bill form, the addBill calls in flight, and their history.
VARIABLES billName, billAmount, billType, billDueDate, billDayOfMonth, autopay, accountLast4, billBusy, isAddBillModalOpen, adds, edits, enabledByUser, optedInIds

\* The tab, the bills menu, delete mode with its selection, and the
\* deleteDoc batch in flight.
VARIABLES activeTab, isBillsMenuOpen, isDeleteMode, selectedBillIds, deleteBusy, deletes

deleteVars == <<activeTab, isBillsMenuOpen, isDeleteMode, selectedBillIds, deleteBusy, deletes>>

formVars == <<billName, billAmount, billType, billDueDate, billDayOfMonth, autopay, accountLast4, billBusy, isAddBillModalOpen, adds, edits, enabledByUser, optedInIds>>

vars == <<now, viewedMonthDate, familyId, bills, store, processedKeys, passes, toggles, statusBusyBillId, billError, sortedBills, clicks, issuedKeys, dupIssued, failedKeys, scanDone, lastEvent, unpaidByUser, formVars, deleteVars>>

(***************************************************************************)
(* Bounds of the model.                                                    *)
(***************************************************************************)
MaxBills == 2

MaxInFlight == 2

\* Clicks on status buttons in one run.
MaxClicks == 1

\* Months the calendar is turned away from the current one.
MaxMonthsAway == 1

\* Clicks on status buttons in one run of the calendar's day sheet.
MaxSheetClicks == 3

\* Changes the user makes to fields of the add-bill form in one run.
MaxEdits == 3

(***************************************************************************)
(* Text.                                                                   *)
(***************************************************************************)
Null == <<"null">>

Digits == <<"0", "1", "2", "3", "4", "5", "6", "7", "8", "9">>

IsDigit(c) == \E i \in 1..10 : Digits[i] = c

DigitVal(c) == (CHOOSE i \in 1..10 : Digits[i] = c) - 1

DigitChar(n) == Digits[n + 1]

RECURSIVE NumberToString(_)
\* String(n) for an integer n >= 0: decimal digits, no padding.
NumberToString(n) == IF n < 10 THEN <<DigitChar(n)>> ELSE NumberToString(n \div 10) \o <<DigitChar(n % 10)>>

RECURSIVE padStart(_, _, _)
\* String.prototype.padStart(targetLength, padString) for a one-character pad.
padStart(s, targetLength, pad) == IF Len(s) >= targetLength THEN s ELSE padStart(<<pad>> \o s, targetLength, pad)

RECURSIVE ToNumber(_)
\* Number(s) for a string of decimal digits.
ToNumber(s) == IF Len(s) = 0 THEN 0 ELSE 10 * ToNumber(SubSeq(s, 1, Len(s) - 1)) + DigitVal(s[Len(s)])

\* Falsy string-or-null: null (or undefined) and the empty string.
IsFalsy(s) == s = Null \/ s = <<>>

(***************************************************************************)
(* Dates: the JS Date constructor and getTime.                             *)
(***************************************************************************)
IsLeapYear(y) == (y % 4 = 0 /\ y % 100 # 0) \/ y % 400 = 0

\* Days of the 0-based month mi of year y.
DaysInMonth(y, mi) == CASE mi = 1 -> (IF IsLeapYear(y) THEN 29 ELSE 28) [] mi \in {3, 5, 8, 10} -> 30 [] OTHER -> 31

RECURSIVE NormalizeDay(_, _, _)
\* Day overflow and underflow of new Date(y, mi, d): roll into the
\* following or the preceding months.
NormalizeDay(y, mi, d) == IF d < 1 THEN (IF mi = 0 THEN NormalizeDay(y - 1, 11, d + DaysInMonth(y - 1, 11)) ELSE NormalizeDay(y, mi - 1, d + DaysInMonth(y, mi - 1))) ELSE IF d > DaysInMonth(y, mi) THEN (IF mi = 11 THEN NormalizeDay(y + 1, 0, d - DaysInMonth(y, mi)) ELSE NormalizeDay(y, mi + 1, d - DaysInMonth(y, mi))) ELSE [y |-> y, m |-> mi, d |-> d, h |-> 0]

\* new Date(year, monthIndex, day): local midnight; a year in 0..99 means
\* 1900 + year; month and day out of range carry over.
NewDate(year, monthIndex, day) == LET y0 == IF year \in 0..99 THEN 1900 + year ELSE year IN NormalizeDay(y0 + (monthIndex \div 12), monthIndex % 12, day)

\* Days from 1970-01-01 to the civil date (y, 1-based month, d).
DaysFromCivil(y, m1, d) == LET yy == IF m1 <= 2 THEN y - 1 ELSE y
                               era == yy \div 400
                               yoe == yy - era * 400
                               mp == IF m1 > 2 THEN m1 - 3 ELSE m1 + 9
                               doy == ((153 * mp + 2) \div 5) + d - 1
                               doe == yoe * 365 + (yoe \div 4) - (yoe \div 100) + doy
                           IN era * 146097 + doe - 719468

\* Date.prototype.getTime, in hours.
getTime(dt) == DaysFromCivil(dt.y, dt.m + 1, dt.d) * 24 + dt.h

startOfDay(date) == NewDate(date.y, date.m, date.d)

nowYear == now.y

nowMonth == now.m

currentYYYYMM == NumberToString(nowYear) \o <<"-">> \o padStart(NumberToString(nowMonth + 1), 2, "0")

todayStart == startOfDay(now)

\* /^\d{4}-\d{2}-\d{2}$/.test(s)
MatchesDatePattern(s) == /\ Len(s) = 10
                         /\ \A i \in {1, 2, 3, 4, 6, 7, 9, 10} : IsDigit(s[i])
                         /\ s[5] = "-"
                         /\ s[8] = "-"

\* parseYYYYMMDD: a set holding the parsed Date, or {} for null.
parseYYYYMMDD(dueDate) == IF ~MatchesDatePattern(dueDate) THEN {} ELSE LET y == ToNumber(SubSeq(dueDate, 1, 4))
                                                                           m == ToNumber(SubSeq(dueDate, 6, 7))
                                                                           d == ToNumber(SubSeq(dueDate, 9, 10))
                                                                           dt == NewDate(y, m - 1, d)
                                                                       IN IF dt.y # y \/ dt.m # m - 1 \/ dt.d # d THEN {} ELSE {dt}

(***************************************************************************)
(* The feed: listenToBills maps every stored document to a BillListItem.   *)
(***************************************************************************)
\* One document as the snapshot listener delivers it.
BillListItem(data) == [id |-> data.id, name |-> data.name, amount |-> data.amount, dueDate |-> data.dueDate, status |-> (IF data.status = "paid" THEN "paid" ELSE "unpaid"), recurrence |-> (IF data.recurrence = "monthly" THEN "monthly" ELSE "null"), dayOfMonth |-> {n \in data.dayOfMonth : n >= 1 /\ n <= 31}, paidForMonth |-> data.paidForMonth, autopay |-> data.autopay]

listenToBills(docs) == [i \in 1..Len(docs) |-> BillListItem(docs[i])]

(***************************************************************************)
(* Derived status, due dates, overdue (dashboard).                         *)
(***************************************************************************)
\* getDerivedStatus, were the stored status also to settle a monthly bill.
getDerivedStatusByStatus(bill) == IF bill.recurrence = "monthly" THEN (IF bill.paidForMonth = currentYYYYMM \/ bill.status = "paid" THEN "paid" ELSE "unpaid") ELSE bill.status

getDerivedStatus(bill) == IF bill.recurrence = "monthly" THEN (IF bill.paidForMonth = currentYYYYMM THEN "paid" ELSE "unpaid") ELSE bill.status

\* parseOneTimeDueDate, were a date that does not resolve to count as time 0.
parseOneTimeDueDateOrZero(dueDate) == IF IsFalsy(dueDate) \/ parseYYYYMMDD(dueDate) = {} THEN {0} ELSE {getTime(dt) : dt \in parseYYYYMMDD(dueDate)}

\* A timestamp is a set: {t} for the finite time t, {} for +Infinity.
parseOneTimeDueDate(dueDate) == IF IsFalsy(dueDate) THEN {} ELSE {getTime(dt) : dt \in parseYYYYMMDD(dueDate)}

\* A set holding the due Date in the current month, or {} for null.
getRecurringDueDateInCurrentMonth(dayOfMonth) == IF dayOfMonth = {} THEN {} ELSE LET lastDay == NewDate(nowYear, nowMonth + 1, 0).d IN {NewDate(nowYear, nowMonth, IF (IF n > 1 THEN n ELSE 1) < lastDay THEN (IF n > 1 THEN n ELSE 1) ELSE lastDay) : n \in dayOfMonth}

\* The due Date isOverdue looks at: a set, {} when there is none.
DueDateOf(bill) == IF bill.recurrence = "monthly" THEN getRecurringDueDateInCurrentMonth(bill.dayOfMonth) ELSE IF IsFalsy(bill.dueDate) THEN {} ELSE parseYYYYMMDD(bill.dueDate)

\* isOverdue, were the due day itself to count as late.
isOverdueFromDueDay(bill) == IF getDerivedStatus(bill) # "unpaid" THEN FALSE ELSE \E dueDate \in DueDateOf(bill) : getTime(startOfDay(dueDate)) <= getTime(todayStart)

isOverdue(bill) == IF getDerivedStatus(bill) # "unpaid" THEN FALSE ELSE \E dueDate \in DueDateOf(bill) : getTime(startOfDay(dueDate)) < getTime(todayStart)

(***************************************************************************)
(* The sorted bill view.                                                   *)
(***************************************************************************)
Lowers == <<"a", "b", "c">>

Uppers == <<"A", "B", "C">>

\* Characters that are no letters, in the order of the default collation:
\* space, punctuation, currency sign, digits.  "bullet" is U+2022.
NonLetters == <<" ", ".", "bullet", "$", "0", "1", "2", "3", "4", "5", "6", "7", "8", "9">>

\* Collation weights of one character: what it is (letters after all
\* else), then its case (lower case first).
PrimaryWeight(c) == IF \E i \in 1..Len(Lowers) : Lowers[i] = c \/ Uppers[i] = c THEN Len(NonLetters) + (CHOOSE i \in 1..Len(Lowers) : Lowers[i] = c \/ Uppers[i] = c) ELSE IF \E i \in 1..Len(NonLetters) : NonLetters[i] = c THEN CHOOSE i \in 1..Len(NonLetters) : NonLetters[i] = c ELSE 0

TertiaryWeight(c) == IF \E i \in 1..Len(Uppers) : Uppers[i] = c THEN 1 ELSE 0

RECURSIVE CompareWeights(_, _)
\* Lexicographic comparison of two weight sequences: -1, 0 or 1.
CompareWeights(u, v) == IF Len(u) = 0 \/ Len(v) = 0 THEN (IF Len(u) = Len(v) THEN 0 ELSE IF Len(u) = 0 THEN -1 ELSE 1) ELSE IF Head(u) < Head(v) THEN -1 ELSE IF Head(u) > Head(v) THEN 1 ELSE CompareWeights(Tail(u), Tail(v))

\* String.prototype.localeCompare: letters decide first, case breaks ties.
localeCompare(a, b) == LET p == CompareWeights([i \in 1..Len(a) |-> PrimaryWeight(a[i])], [i \in 1..Len(b) |-> PrimaryWeight(b[i])]) IN IF p # 0 THEN p ELSE CompareWeights([i \in 1..Len(a) |-> TertiaryWeight(a[i])], [i \in 1..Len(b) |-> TertiaryWeight(b[i])])

\* statusOrder, were paid bills to rank first.
statusOrderPaidFirst(bill) == IF getDerivedStatus(bill) = "paid" THEN 0 ELSE 1

statusOrder(bill) == IF getDerivedStatus(bill) = "unpaid" THEN 0 ELSE 1

\* The due timestamp the comparator uses: {t}, or {} for +Infinity.
SortDue(bill) == IF bill.recurrence = "monthly" THEN {getTime(dt) : dt \in getRecurringDueDateInCurrentMonth(bill.dayOfMonth)} ELSE parseOneTimeDueDate(bill.dueDate)

\* dueA - dueB for two different timestamps, +Infinity included.
DueDifference(dueA, dueB) == IF dueA = {} THEN 1 ELSE IF dueB = {} THEN -1 ELSE (CHOOSE t \in dueA : TRUE) - (CHOOSE t \in dueB : TRUE)

\* The comparator of sortedBills: negative, zero or positive.
compareBills(a, b) == IF statusOrder(a) # statusOrder(b) THEN statusOrder(a) - statusOrder(b) ELSE IF SortDue(a) # SortDue(b) THEN DueDifference(SortDue(a), SortDue(b)) ELSE localeCompare(a.name, b.name)

RECURSIVE InsertStable(_, _)
\* x put into the sorted sequence s behind every element not greater.
InsertStable(s, x) == IF Len(s) = 0 THEN <<x>> ELSE IF compareBills(Head(s), x) > 0 THEN <<x>> \o s ELSE <<Head(s)>> \o InsertStable(Tail(s), x)

RECURSIVE SortFrom(_, _)
SortFrom(done, rest) == IF Len(rest) = 0 THEN done ELSE SortFrom(InsertStable(done, Head(rest)), Tail(rest))

\* [...bills].sort(comparator): Array.prototype.sort is stable.
SortBills(list) == SortFrom(<<>>, list)

(***************************************************************************)
(* The summary totals of the dashboard: bills.reduce(...).                 *)
(***************************************************************************)
\* oneTimeIsCurrentMonth of the reducer.
oneTimeIsCurrentMonth(bill) == bill.recurrence # "monthly" /\ ~IsFalsy(bill.dueDate) /\ \E oneTimeDueDate \in parseYYYYMMDD(bill.dueDate) : oneTimeDueDate.m = nowMonth /\ oneTimeDueDate.y = nowYear

\* The reducer, were overdue amounts counted for bills of this month only.
AddToTotalsThisMonthOnly(totals, bill) == [dueThisMonthTotal |-> totals.dueThisMonthTotal + (IF (bill.recurrence = "monthly" /\ getRecurringDueDateInCurrentMonth(bill.dayOfMonth) # {}) \/ oneTimeIsCurrentMonth(bill) THEN bill.amount ELSE 0),
                                           paidThisMonthTotal |-> totals.paidThisMonthTotal + (IF (bill.recurrence = "monthly" /\ bill.paidForMonth = currentYYYYMM) \/ (oneTimeIsCurrentMonth(bill) /\ bill.status = "paid") THEN bill.amount ELSE 0),
                                           overdueTotal |-> totals.overdueTotal + (IF isOverdue(bill) /\ (bill.recurrence = "monthly" \/ oneTimeIsCurrentMonth(bill)) THEN bill.amount ELSE 0)]

\* The reducer, were a bill counted as due only while it is unpaid.
AddToTotalsUnpaidDue(totals, bill) == [dueThisMonthTotal |-> totals.dueThisMonthTotal + (IF getDerivedStatus(bill) = "unpaid" /\ ((bill.recurrence = "monthly" /\ getRecurringDueDateInCurrentMonth(bill.dayOfMonth) # {}) \/ oneTimeIsCurrentMonth(bill)) THEN bill.amount ELSE 0),
                                       paidThisMonthTotal |-> totals.paidThisMonthTotal + (IF (bill.recurrence = "monthly" /\ bill.paidForMonth = currentYYYYMM) \/ (oneTimeIsCurrentMonth(bill) /\ bill.status = "paid") THEN bill.amount ELSE 0),
                                       overdueTotal |-> totals.overdueTotal + (IF isOverdue(bill) THEN bill.amount ELSE 0)]

\* One call of the reducer: the totals with one bill added.
AddToTotals(totals, bill) == [dueThisMonthTotal |-> totals.dueThisMonthTotal + (IF (bill.recurrence = "monthly" /\ getRecurringDueDateInCurrentMonth(bill.dayOfMonth) # {}) \/ oneTimeIsCurrentMonth(bill) THEN bill.amount ELSE 0),
                              paidThisMonthTotal |-> totals.paidThisMonthTotal + (IF (bill.recurrence = "monthly" /\ bill.paidForMonth = currentYYYYMM) \/ (oneTimeIsCurrentMonth(bill) /\ bill.status = "paid") THEN bill.amount ELSE 0),
                              overdueTotal |-> totals.overdueTotal + (IF isOverdue(bill) THEN bill.amount ELSE 0)]

RECURSIVE Reduce(_, _, _)
\* Array.prototype.reduce from position i on.
Reduce(list, i, totals) == IF i > Len(list) THEN totals ELSE Reduce(list, i + 1, AddToTotals(totals, list[i]))

\* The three totals of a list of bills.
TotalsOf(list) == Reduce(list, 1, [dueThisMonthTotal |-> 0, paidThisMonthTotal |-> 0, overdueTotal |-> 0])

dueThisMonthTotal == TotalsOf(bills).dueThisMonthTotal

paidThisMonthTotal == TotalsOf(bills).paidThisMonthTotal

overdueTotal == TotalsOf(bills).overdueTotal

remainingThisMonthTotal == IF dueThisMonthTotal - paidThisMonthTotal > 0 THEN dueThisMonthTotal - paidThisMonthTotal ELSE 0

(***************************************************************************)
(* The store: families/<familyId>/bills, one sequence of documents per     *)
(* family, in the order of the feed's query.  updateDoc changes the named  *)
(* fields of one document and is rejected when the document is missing.    *)
(***************************************************************************)
NoFamily == "none"

Families == {"f1", "f2"}

\* The ids of the documents.
BillIds == <<(<<"b", "1">>), (<<"b", "2">>), (<<"b", "3">>), (<<"b", "4">>)>>

\* A field an update leaves alone.
Unchanged == <<"unchanged">>

DocExists(docs, id) == \E i \in 1..Len(docs) : docs[i].id = id

\* updateDoc(billRef, write) on the documents of one family.
updateDoc(docs, id, write) == [i \in 1..Len(docs) |-> IF docs[i].id # id THEN docs[i] ELSE [docs[i] EXCEPT !.paidForMonth = (IF write.paidForMonth = Unchanged THEN @ ELSE write.paidForMonth), !.status = (IF write.status = "unchanged" THEN @ ELSE write.status)]]

(***************************************************************************)
(* The autopay scheduler: the effect on [familyId, bills] and runAutopay.  *)
(***************************************************************************)
\* The idempotency key runAutopay builds for a bill.
AutopayKey(bill) == IF bill.recurrence = "monthly" THEN bill.id \o <<":">> \o currentYYYYMM ELSE bill.id \o <<":">> \o bill.dueDate

\* The write runAutopay sends for a bill.
AutopayWrite(bill) == IF bill.recurrence = "monthly" THEN [paidForMonth |-> currentYYYYMM, status |-> "unchanged"] ELSE [paidForMonth |-> Unchanged, status |-> "paid"]

\* ReachesUpdate, were the processed keys not consulted.
ReachesUpdateUnmarked(bill, processed) == /\ bill.autopay = "true"
                                          /\ IF bill.recurrence = "monthly" THEN /\ bill.paidForMonth # currentYYYYMM
                                                                                 /\ \E recurringDueDate \in getRecurringDueDateInCurrentMonth(bill.dayOfMonth) : ~(getTime(startOfDay(recurringDueDate)) > getTime(todayStart))
                                                                            ELSE /\ ~(bill.status = "paid" \/ IsFalsy(bill.dueDate))
                                                                                 /\ \E oneTimeDueDate \in parseYYYYMMDD(bill.dueDate) : ~(getTime(startOfDay(oneTimeDueDate)) > getTime(todayStart))

\* ReachesUpdate, were a due date in the future not to hold the write back.
ReachesUpdateAnyDay(bill, processed) == /\ bill.autopay = "true"
                                        /\ IF bill.recurrence = "monthly" THEN /\ bill.paidForMonth # currentYYYYMM
                                                                               /\ getRecurringDueDateInCurrentMonth(bill.dayOfMonth) # {}
                                                                          ELSE /\ ~(bill.status = "paid" \/ IsFalsy(bill.dueDate))
                                                                               /\ parseYYYYMMDD(bill.dueDate) # {}
                                        /\ AutopayKey(bill) \notin processed

\* One iteration of the loop of runAutopay reaches updateDoc for this bill.
ReachesUpdate(bill, processed) == /\ bill.autopay = "true"
                                  /\ IF bill.recurrence = "monthly" THEN /\ bill.paidForMonth # currentYYYYMM
                                                                         /\ \E recurringDueDate \in getRecurringDueDateInCurrentMonth(bill.dayOfMonth) : ~(getTime(startOfDay(recurringDueDate)) > getTime(todayStart))
                                                                    ELSE /\ ~(bill.status = "paid" \/ IsFalsy(bill.dueDate))
                                                                         /\ \E oneTimeDueDate \in parseYYYYMMDD(bill.dueDate) : ~(getTime(startOfDay(oneTimeDueDate)) > getTime(todayStart))
                                  /\ AutopayKey(bill) \notin processed

\* NextAwait, were the loop left at the first bill it passes over.
NextAwaitUntilSkip(snap, i, processed) == IF i > Len(snap) THEN 0 ELSE IF ReachesUpdate(snap[i], processed) THEN i ELSE 0

RECURSIVE NextAwait(_, _, _)
\* The loop from position i on: the position of the first bill whose
\* iteration reaches updateDoc, or 0 when the loop runs off the list.
NextAwait(snap, i, processed) == IF i > Len(snap) THEN 0 ELSE IF ReachesUpdate(snap[i], processed) THEN i ELSE NextAwait(snap, i + 1, processed)

\* A pass suspended in its await: the closure of one run of the effect.
AwaitingPass(fam, snap, i) == [fam |-> fam, snap |-> snap, idx |-> i, key |-> AutopayKey(snap[i]), write |-> AutopayWrite(snap[i]), cancelled |-> FALSE]

\* The cleanup of the effect: the pass of the previous run is cancelled.
Cleanup(ps) == [i \in 1..Len(ps) |-> [ps[i] EXCEPT !.cancelled = TRUE]]

\* The effect runs for (fam, snap): whether a pass starts at all.
EffectStartsPass(fam, snap) == ~(fam = NoFamily \/ Len(snap) = 0)

\* The passes after cleanup and a new run of the effect for (fam, snap).
RunAutopayEffect(ps, fam, snap, processed) == LET j == IF EffectStartsPass(fam, snap) THEN NextAwait(snap, 1, processed) ELSE 0 IN IF j = 0 THEN Cleanup(ps) ELSE Append(Cleanup(ps), AwaitingPass(fam, snap, j))

\* What one step did, for the history variables: the kind of step, the
\* key of the write a pass issued in it (Null: none), the processed keys
\* it cleared, and whether the pass that resumed in it was cancelled.
EventOf(kind, issuedPass, cleared) == [kind |-> kind, key |-> (IF issuedPass = <<>> THEN Null ELSE issuedPass[1].key), cleared |-> cleared, superseded |-> FALSE]

Event(kind, issuedPass) == EventOf(kind, issuedPass, {})

\* ProcessedAfter, were the key marked behind a resolved updateDoc only.
ProcessedAfterResolved(processed, key, ok) == IF ok THEN processed \cup {key} ELSE processed

\* The finally block behind updateDoc: the key is marked, resolved or not.
ProcessedAfter(processed, key, ok) == processed \cup {key}

RECURSIVE RunToCompletion(_, _, _, _)
\* A pass that is never cancelled, from position i on, every updateDoc
\* settled in its turn: the writes it issues, by key, and the processed
\* keys it ends with.
RunToCompletion(snap, i, processed, issued) == LET j == NextAwait(snap, i, processed) IN IF j = 0 THEN [issued |-> issued, processed |-> processed] ELSE RunToCompletion(snap, j + 1, ProcessedAfter(processed, AutopayKey(snap[j]), TRUE), issued \cup {[id |-> snap[j].id, key |-> AutopayKey(snap[j]), write |-> AutopayWrite(snap[j])]})

\* ClearProcessedKeys, were the keys to outlive the family.
KeepProcessedKeys(processed) == processed

\* The effect on [familyId]: autopayProcessedKeysRef.current.clear().
ClearProcessedKeys(processed) == {}

\* The pass a step left suspended in a new await: <<pass>> or <<>>.
IssuedBy(before, after) == IF Len(after) > 0 /\ ~after[Len(after)].cancelled /\ (Len(after) > Len(before) \/ after[Len(after)] # before[Len(after)]) THEN <<after[Len(after)]>> ELSE <<>>

IssuedKeys(ip) == {ip[i].key : i \in 1..Len(ip)}

\* The effect on [bills, selectedBillIds.size]: ids of bills that are gone
\* leave the selection.
KeepValidBillIds(selected, snap) == {id \in selected : \E i \in 1..Len(snap) : snap[i].id = id}

\* A snapshot arrives from the feed of the current family: setBills, the
\* render, the cleanup of the previous pass and a new run of the effect,
\* and the effect that prunes the selection.
FeedDeliver == /\ familyId # NoFamily
               /\ Len(passes) < MaxInFlight
               /\ bills' = listenToBills(store[familyId])
               /\ sortedBills' = SortBills(bills')
               /\ passes' = RunAutopayEffect(passes, familyId, bills', processedKeys)
               /\ LET ip == IssuedBy(Cleanup(passes), passes')
                      scanned == EffectStartsPass(familyId, bills') /\ ip = <<>>
                  IN /\ issuedKeys' = issuedKeys \cup IssuedKeys(ip)
                     /\ dupIssued' = dupIssued \cup (IssuedKeys(ip) \cap issuedKeys)
                     /\ scanDone' = (scanned \/ (scanDone /\ bills' = bills))
                     /\ lastEvent' = Event(IF scanDone /\ bills' = bills THEN "rescan" ELSE "feed", ip)
               /\ selectedBillIds' = KeepValidBillIds(selectedBillIds, bills')
               /\ UNCHANGED <<now, viewedMonthDate, familyId, store, processedKeys, toggles, statusBusyBillId, billError, clicks, failedKeys, unpaidByUser, formVars, activeTab, isBillsMenuOpen, isDeleteMode, deleteBusy, deletes>>

\* The effect on [familyId] of the bills listener, the reset of the
\* processed keys, and the autopay effect, after familyId changed to f.
FamilyChange(f) == /\ f # familyId
                   /\ Len(passes) < MaxInFlight
                   /\ familyId' = f
                   /\ bills' = (IF f = NoFamily THEN <<>> ELSE bills)
                   /\ sortedBills' = SortBills(bills')
                   /\ processedKeys' = ClearProcessedKeys(processedKeys)
                   /\ passes' = RunAutopayEffect(passes, f, bills', processedKeys')
                   /\ LET ip == IssuedBy(Cleanup(passes), passes')
                          scanned == EffectStartsPass(f, bills') /\ ip = <<>>
                      IN /\ issuedKeys' = IssuedKeys(ip)
                         /\ dupIssued' = {}
                         /\ scanDone' = scanned
                         /\ lastEvent' = EventOf("family", ip, processedKeys)
                   /\ failedKeys' = {}
                   /\ unpaidByUser' = {}
                   /\ isDeleteMode' = (IF f = NoFamily THEN FALSE ELSE isDeleteMode)
                   /\ selectedBillIds' = (IF f = NoFamily THEN {} ELSE selectedBillIds)
                   /\ UNCHANGED <<now, viewedMonthDate, store, toggles, statusBusyBillId, billError, clicks, formVars, activeTab, isBillsMenuOpen, deleteBusy, deletes>>

\* AutopayCompletes, were the cancelled flag not looked at.
AutopayCompletesUncancelled(i, ok) == LET p == passes[i]
                                          id == p.snap[p.idx].id
                                          keys == ProcessedAfter(processedKeys, p.key, ok)
                                          j == NextAwait(p.snap, p.idx + 1, keys)
                                          rest == [k \in 1..(Len(passes) - 1) |-> IF k < i THEN passes[k] ELSE passes[k + 1]]
                                      IN /\ ok => DocExists(store[p.fam], id)
                                         /\ store' = (IF ok THEN [store EXCEPT ![p.fam] = updateDoc(@, id, p.write)] ELSE store)
                                         /\ processedKeys' = keys
                                         /\ passes' = (IF j = 0 THEN rest ELSE [passes EXCEPT ![i] = AwaitingPass(p.fam, p.snap, j)])
                                         /\ LET ip == IF j = 0 THEN <<>> ELSE <<passes'[i]>>
                                                scanned == ~p.cancelled /\ j = 0
                                            IN /\ issuedKeys' = issuedKeys \cup IssuedKeys(ip)
                                               /\ dupIssued' = dupIssued \cup (IssuedKeys(ip) \cap issuedKeys)
                                               /\ scanDone' = (scanned \/ scanDone)
                                               /\ lastEvent' = [Event(IF ok THEN "autopay-ok" ELSE "autopay-failed", ip) EXCEPT !.superseded = p.cancelled]
                                         /\ failedKeys' = (IF ok THEN failedKeys ELSE failedKeys \cup {p.key})
                                         /\ UNCHANGED <<now, viewedMonthDate, familyId, bills, sortedBills, toggles, statusBusyBillId, billError, clicks, unpaidByUser, formVars, deleteVars>>

\* The updateDoc a pass awaits settles (ok: resolved, otherwise rejected):
\* catch, finally, and the loop up to its next await or its end.
AutopayCompletes(i, ok) == LET p == passes[i]
                               id == p.snap[p.idx].id
                               keys == ProcessedAfter(processedKeys, p.key, ok)
                               j == IF p.cancelled THEN 0 ELSE NextAwait(p.snap, p.idx + 1, keys)
                               rest == [k \in 1..(Len(passes) - 1) |-> IF k < i THEN passes[k] ELSE passes[k + 1]]
                           IN /\ ok => DocExists(store[p.fam], id)
                              /\ store' = (IF ok THEN [store EXCEPT ![p.fam] = updateDoc(@, id, p.write)] ELSE store)
                              /\ processedKeys' = keys
                              /\ passes' = (IF j = 0 THEN rest ELSE [passes EXCEPT ![i] = AwaitingPass(p.fam, p.snap, j)])
                              /\ LET ip == IF j = 0 THEN <<>> ELSE <<passes'[i]>>
                                     scanned == ~p.cancelled /\ j = 0
                                 IN /\ issuedKeys' = issuedKeys \cup IssuedKeys(ip)
                                    /\ dupIssued' = dupIssued \cup (IssuedKeys(ip) \cap issuedKeys)
                                    /\ scanDone' = (scanned \/ scanDone)
                                    /\ lastEvent' = [Event(IF ok THEN "autopay-ok" ELSE "autopay-failed", ip) EXCEPT !.superseded = p.cancelled]
                              /\ failedKeys' = (IF ok THEN failedKeys ELSE failedKeys \cup {p.key})
                              /\ UNCHANGED <<now, viewedMonthDate, familyId, bills, sortedBills, toggles, statusBusyBillId, billError, clicks, unpaidByUser, formVars, deleteVars>>

\* The badge of a bill's row on the dashboard.
badgeLabel(bill) == LET derivedStatus == getDerivedStatus(bill)
                        overdue == isOverdue(bill)
                    IN IF derivedStatus = "paid" THEN "PAID" ELSE IF overdue THEN "OVERDUE" ELSE "UNPAID"

(***************************************************************************)
(* The manual toggle: handleToggleBillStatusWithContext, toggleBillStatus. *)
(***************************************************************************)
\* The toggle button of a bill row is enabled and the handler goes on.
ToggleAccepted(bill) == familyId # NoFamily /\ statusBusyBillId # bill.id

\* The click on the status button of the dashboard row of bills[i].
ToggleStart(i) == LET bill == bills[i]
                      currentStatus == getDerivedStatus(bill)
                      nextStatus == IF currentStatus = "paid" THEN "unpaid" ELSE "paid"
                  IN /\ ToggleAccepted(bill)
                     /\ ~(isDeleteMode \/ deleteBusy)
                     /\ clicks < MaxClicks
                     /\ clicks' = clicks + 1
                     /\ billError' = "none"
                     /\ statusBusyBillId' = bill.id
                     /\ toggles' = Append(toggles, [fam |-> familyId, id |-> bill.id, nextStatus |-> nextStatus, recurrence |-> bill.recurrence, currentYYYYMM |-> currentYYYYMM])
                     /\ lastEvent' = Event("toggle", <<>>)
                     /\ unpaidByUser' = (IF nextStatus = "unpaid" THEN unpaidByUser \cup {[id |-> bill.id, key |-> AutopayKey(bill), written |-> FALSE]} ELSE unpaidByUser)
                     /\ UNCHANGED <<now, viewedMonthDate, familyId, bills, store, processedKeys, passes, sortedBills, issuedKeys, dupIssued, failedKeys, scanDone, formVars, deleteVars>>

\* The write toggleBillStatus sends, the recurrence read from the document
\* when the caller passed none.
ToggleWrite(t, docs) == LET recurrence == IF t.recurrence = "monthly" \/ \E k \in 1..Len(docs) : docs[k].id = t.id /\ docs[k].recurrence = "monthly" THEN "monthly" ELSE "null" IN IF recurrence = "monthly" THEN [paidForMonth |-> (IF t.nextStatus = "paid" THEN t.currentYYYYMM ELSE Null), status |-> t.nextStatus] ELSE [paidForMonth |-> Unchanged, status |-> t.nextStatus]

\* toggleBillStatus settles: catch and finally of the handler.
ToggleCompletes(i, ok) == LET t == toggles[i] IN /\ ok => DocExists(store[t.fam], t.id)
                                                /\ store' = (IF ok THEN [store EXCEPT ![t.fam] = updateDoc(@, t.id, ToggleWrite(t, @))] ELSE store)
                                                /\ billError' = (IF ok THEN billError ELSE "Failed to update bill status")
                                                /\ statusBusyBillId' = Null
                                                /\ toggles' = [k \in 1..(Len(toggles) - 1) |-> IF k < i THEN toggles[k] ELSE toggles[k + 1]]
                                                /\ lastEvent' = Event(IF ok THEN "toggle-ok" ELSE "toggle-failed", <<>>)
                                                /\ unpaidByUser' = {IF m.id = t.id /\ ok /\ t.nextStatus = "unpaid" THEN [m EXCEPT !.written = TRUE] ELSE m : m \in {m \in unpaidByUser : m.id = t.id /\ ~m.written => ok}}
                                                /\ UNCHANGED <<now, viewedMonthDate, familyId, bills, processedKeys, passes, sortedBills, clicks, issuedKeys, dupIssued, failedKeys, scanDone, formVars, deleteVars>>

(***************************************************************************)
(* The add-bill form: its fields, handleAddBill and addBill.  The user is  *)
(* signed in throughout; the category of a bill plays no part in status,   *)
(* due date or autopay and is left out.                                    *)
(***************************************************************************)
RECURSIVE TrimStart(_)
TrimStart(s) == IF Len(s) > 0 /\ Head(s) = " " THEN TrimStart(Tail(s)) ELSE s

RECURSIVE TrimEnd(_)
TrimEnd(s) == IF Len(s) > 0 /\ s[Len(s)] = " " THEN TrimEnd(SubSeq(s, 1, Len(s) - 1)) ELSE s

\* String.prototype.trim.
Trim(s) == TrimEnd(TrimStart(s))

\* Number(text) for a text of digits, blanks or letters: {n}, or {} for NaN.
NumberOf(text) == IF \A i \in 1..Len(Trim(text)) : IsDigit(Trim(text)[i]) THEN {ToNumber(Trim(text))} ELSE {}

RECURSIVE DigitPrefix(_)
DigitPrefix(s) == IF Len(s) > 0 /\ IsDigit(Head(s)) THEN <<Head(s)>> \o DigitPrefix(Tail(s)) ELSE <<>>

\* Number.parseInt(text, 10) for a text without sign: {n}, or {} for NaN.
parseInt(text) == IF DigitPrefix(TrimStart(text)) = <<>> THEN {} ELSE {ToNumber(DigitPrefix(TrimStart(text)))}

\* text.replace(/\D/g, "").
DigitsOf(text) == SelectSeq(text, IsDigit)

\* onAccountLast4Change: the digits of the input, four at most.
Last4Input(text) == SubSeq(DigitsOf(text), 1, IF Len(DigitsOf(text)) < 4 THEN Len(DigitsOf(text)) ELSE 4)

\* The state of the form after construction.
InitForm == /\ billName = <<>>
            /\ billAmount = <<>>
            /\ billType = "one-time"
            /\ billDueDate = <<>>
            /\ billDayOfMonth = <<"1">>
            /\ autopay = TRUE
            /\ accountLast4 = <<>>
            /\ billBusy = FALSE
            /\ isAddBillModalOpen = FALSE
            /\ adds = <<>>
            /\ edits = 0
            /\ enabledByUser = FALSE
            /\ optedInIds = {}

\* What the user may type or pick.
FormNames == {<<>>, <<" ">>, <<"a">>}

FormAmounts == {<<>>, <<"5">>, <<"x">>}

FormDueDates == {<<>>, <<"2", "0", "2", "4", "-", "0", "3", "-", "0", "5">>}

FormDays == {<<"1">>, <<"3", "1">>, <<"3", "2">>}

FormLast4 == {<<>>, <<"1", "2">>, <<"1", "2", "-", "3", "4", "5">>}

\* The form is on screen and the user still changes fields.
CanEdit == familyId # NoFamily /\ isAddBillModalOpen /\ edits < MaxEdits

schedulerHistory == <<issuedKeys, dupIssued, failedKeys, scanDone, unpaidByUser>>

dashboardVars == <<now, viewedMonthDate, familyId, bills, store, processedKeys, passes, toggles, statusBusyBillId, sortedBills, clicks>>

\* handleOpenAddBillModal.
OpenAddBillModal == /\ familyId # NoFamily
                    /\ ~isAddBillModalOpen
                    /\ isAddBillModalOpen' = TRUE
                    /\ lastEvent' = Event("open-form", <<>>)
                    /\ isBillsMenuOpen' = FALSE
                    /\ isDeleteMode' = FALSE
                    /\ selectedBillIds' = {}
                    /\ UNCHANGED <<dashboardVars, schedulerHistory, activeTab, deleteBusy, deletes, billError, billName, billAmount, billType, billDueDate, billDayOfMonth, autopay, accountLast4, billBusy, adds, edits, enabledByUser, optedInIds>>

\* onBillNameChange = setBillName.
SetBillName(v) == /\ CanEdit /\ v # billName
                  /\ billName' = v
                  /\ edits' = edits + 1
                  /\ lastEvent' = Event("edit", <<>>)
                  /\ UNCHANGED <<dashboardVars, schedulerHistory, deleteVars, billError, billAmount, billType, billDueDate, billDayOfMonth, autopay, accountLast4, billBusy, isAddBillModalOpen, adds, enabledByUser, optedInIds>>

\* onBillAmountChange = setBillAmount.
SetBillAmount(v) == /\ CanEdit /\ v # billAmount
                    /\ billAmount' = v
                    /\ edits' = edits + 1
                    /\ lastEvent' = Event("edit", <<>>)
                    /\ UNCHANGED <<dashboardVars, schedulerHistory, deleteVars, billError, billName, billType, billDueDate, billDayOfMonth, autopay, accountLast4, billBusy, isAddBillModalOpen, adds, enabledByUser, optedInIds>>

\* onBillTypeChange = setBillType.
SetBillType(v) == /\ CanEdit /\ v # billType
                  /\ billType' = v
                  /\ edits' = edits + 1
                  /\ lastEvent' = Event("edit", <<>>)
                  /\ UNCHANGED <<dashboardVars, schedulerHistory, deleteVars, billError, billName, billAmount, billDueDate, billDayOfMonth, autopay, accountLast4, billBusy, isAddBillModalOpen, adds, enabledByUser, optedInIds>>

\* onBillDueDateChange = setBillDueDate; the field shows for one-time bills.
SetBillDueDate(v) == /\ CanEdit /\ v # billDueDate /\ billType = "one-time"
                     /\ billDueDate' = v
                     /\ edits' = edits + 1
                     /\ lastEvent' = Event("edit", <<>>)
                     /\ UNCHANGED <<dashboardVars, schedulerHistory, deleteVars, billError, billName, billAmount, billType, billDayOfMonth, autopay, accountLast4, billBusy, isAddBillModalOpen, adds, enabledByUser, optedInIds>>

\* onBillDayOfMonthChange = setBillDayOfMonth; shows for monthly bills.
SetBillDayOfMonth(v) == /\ CanEdit /\ v # billDayOfMonth /\ billType = "monthly"
                        /\ billDayOfMonth' = v
                        /\ edits' = edits + 1
                        /\ lastEvent' = Event("edit", <<>>)
                        /\ UNCHANGED <<dashboardVars, schedulerHistory, deleteVars, billError, billName, billAmount, billType, billDueDate, autopay, accountLast4, billBusy, isAddBillModalOpen, adds, enabledByUser, optedInIds>>

\* onAutopayChange = setAutopay: the user ticks or unticks the checkbox.
SetAutopay(v) == /\ CanEdit /\ v # autopay
                 /\ autopay' = v
                 /\ enabledByUser' = v
                 /\ edits' = edits + 1
                 /\ lastEvent' = Event("edit", <<>>)
                 /\ UNCHANGED <<dashboardVars, schedulerHistory, deleteVars, billError, billName, billAmount, billType, billDueDate, billDayOfMonth, accountLast4, billBusy, isAddBillModalOpen, adds, optedInIds>>

\* onAccountLast4Change: setAccountLast4 of the digits typed.
SetAccountLast4(v) == /\ CanEdit /\ Last4Input(v) # accountLast4
                      /\ accountLast4' = Last4Input(v)
                      /\ edits' = edits + 1
                      /\ lastEvent' = Event("edit", <<>>)
                      /\ UNCHANGED <<dashboardVars, schedulerHistory, deleteVars, billError, billName, billAmount, billType, billDueDate, billDayOfMonth, autopay, billBusy, isAddBillModalOpen, adds, enabledByUser, optedInIds>>

\* The checks of handleAddBill, were the day of month not among them.
AddBillErrorDayUnchecked == IF Trim(billName) = <<>> THEN "Bill name is required"
                            ELSE IF NumberOf(billAmount) = {} THEN "Amount must be a valid number"
                            ELSE IF Len(DigitsOf(accountLast4)) \notin {0, 4} THEN "Account Last 4 must be exactly 4 digits"
                            ELSE "none"

\* The message of the check handleAddBill fails at, "none" when it passes.
AddBillError == IF Trim(billName) = <<>> THEN "Bill name is required"
                ELSE IF NumberOf(billAmount) = {} THEN "Amount must be a valid number"
                ELSE IF Len(DigitsOf(accountLast4)) \notin {0, 4} THEN "Account Last 4 must be exactly 4 digits"
                ELSE IF billType = "monthly" /\ ~(\E dayOfMonth \in parseInt(billDayOfMonth) : dayOfMonth >= 1 /\ dayOfMonth <= 31) THEN "Day of month must be between 1 and 31"
                ELSE "none"

\* The bill handleAddBill hands to addBill.
BillInput == [name |-> Trim(billName), amount |-> CHOOSE n \in NumberOf(billAmount) : TRUE, recurrence |-> (IF billType = "monthly" THEN "monthly" ELSE "null"), dayOfMonth |-> (IF billType = "monthly" THEN parseInt(billDayOfMonth) ELSE {}), dueDate |-> (IF billType = "monthly" THEN Null ELSE Trim(billDueDate)), autopay |-> autopay]

\* The submit of the form: handleAddBill up to its await.
HandleAddBill == /\ familyId # NoFamily
                 /\ isAddBillModalOpen
                 /\ ~billBusy
                 /\ Len(store[familyId]) < MaxBills
                 /\ billError' = AddBillError
                 /\ billBusy' = (AddBillError = "none")
                 /\ adds' = (IF AddBillError = "none" THEN Append(adds, [fam |-> familyId, bill |-> BillInput, optedIn |-> enabledByUser]) ELSE adds)
                 /\ lastEvent' = Event(IF AddBillError = "none" THEN "submit" ELSE "invalid", <<>>)
                 /\ UNCHANGED <<dashboardVars, schedulerHistory, deleteVars, billName, billAmount, billType, billDueDate, billDayOfMonth, autopay, accountLast4, isAddBillModalOpen, edits, enabledByUser, optedInIds>>

\* The autopay field addBill stores: the one it is handed.
StoredAutopay(bill) == IF bill.autopay THEN "true" ELSE "false"

\* The document addBill adds for a bill.
NewDoc(id, bill) == [id |-> id, name |-> bill.name, amount |-> bill.amount, dueDate |-> (IF bill.recurrence = "monthly" \/ Trim(bill.dueDate) = <<>> THEN Null ELSE Trim(bill.dueDate)), status |-> "unpaid", recurrence |-> bill.recurrence, dayOfMonth |-> bill.dayOfMonth, paidForMonth |-> Null, autopay |-> StoredAutopay(bill)]

\* addBill on the documents of one family: the newest comes first.
addBill(docs, id, bill) == <<NewDoc(id, bill)>> \o docs

\* The id addDoc gives: one no document of any family has.
FreshId == BillIds[Len(store["f1"]) + Len(store["f2"]) + 1]

\* addBill settles: the rest of the try, catch and finally of handleAddBill.
AddBillCompletes(i, ok) == LET a == adds[i] IN /\ store' = (IF ok THEN [store EXCEPT ![a.fam] = addBill(@, FreshId, a.bill)] ELSE store)
                                               /\ optedInIds' = (IF ok /\ a.optedIn THEN optedInIds \cup {FreshId} ELSE optedInIds)
                                               /\ billName' = (IF ok THEN <<>> ELSE billName)
                                               /\ billAmount' = (IF ok THEN <<>> ELSE billAmount)
                                               /\ billDueDate' = (IF ok THEN <<>> ELSE billDueDate)
                                               /\ billDayOfMonth' = (IF ok THEN <<"1">> ELSE billDayOfMonth)
                                               /\ autopay' = (IF ok THEN TRUE ELSE autopay)
                                               /\ enabledByUser' = (IF ok THEN FALSE ELSE enabledByUser)
                                               /\ accountLast4' = (IF ok THEN <<>> ELSE accountLast4)
                                               /\ isAddBillModalOpen' = (IF ok THEN FALSE ELSE isAddBillModalOpen)
                                               /\ billError' = (IF ok THEN billError ELSE "Failed to add bill")
                                               /\ billBusy' = FALSE
                                               /\ adds' = [k \in 1..(Len(adds) - 1) |-> IF k < i THEN adds[k] ELSE adds[k + 1]]
                                               /\ lastEvent' = Event(IF ok THEN "add-ok" ELSE "add-failed", <<>>)
                                               /\ UNCHANGED <<now, viewedMonthDate, familyId, bills, processedKeys, passes, toggles, statusBusyBillId, sortedBills, clicks, schedulerHistory, deleteVars, billType, edits>>

(***************************************************************************)
(* The calendar (BillsCalendar): the events of the viewed month.           *)
(***************************************************************************)
viewedYear == viewedMonthDate.y

viewedMonth == viewedMonthDate.m

getYYYYMM(date) == NumberToString(date.y) \o <<"-">> \o padStart(NumberToString(date.m + 1), 2, "0")

viewedYYYYMM == getYYYYMM(viewedMonthDate)

\* Today, were it taken a year late.
todayNextYear == NewDate(now.y + 1, now.m, now.d)

\* today of the calendar component.
today == startOfDay(now)

\* isMonthInFuture, were the current month to count as a future one.
isMonthInFutureOrCurrent(viewYear, viewMonth, todayYear, todayMonth) == viewYear > todayYear \/ (viewYear = todayYear /\ viewMonth >= todayMonth)

isMonthInFuture(viewYear, viewMonth, todayYear, todayMonth) == viewYear > todayYear \/ (viewYear = todayYear /\ viewMonth > todayMonth)

\* The due date in the viewed month, were the day not clamped to the
\* length of the month.
getRecurringDueDateUnclamped(year, month, dayOfMonth) == IF dayOfMonth = {} THEN {} ELSE {NewDate(year, month, IF n > 1 THEN n ELSE 1) : n \in dayOfMonth}

\* A set holding the due Date in the month (year, month), or {} for null.
getRecurringDueDateInViewedMonth(year, month, dayOfMonth) == IF dayOfMonth = {} THEN {} ELSE LET lastDay == NewDate(year, month + 1, 0).d IN {NewDate(year, month, IF (IF n > 1 THEN n ELSE 1) < lastDay THEN (IF n > 1 THEN n ELSE 1) ELSE lastDay) : n \in dayOfMonth}

\* amount.toFixed(2) of a whole amount.
toFixed2(amount) == NumberToString(amount) \o <<".", "0", "0">>

EventLabel(bill) == bill.name \o <<" ", "bullet", " ", "$">> \o toFixed2(bill.amount)

MakeEvent(bill, date, isPaid, overdue) == [billId |-> bill.id, dayOfMonth |-> date.d, status |-> (IF isPaid THEN "paid" ELSE IF overdue THEN "overdue" ELSE "unpaid"), bill |-> bill, name |-> bill.name, amount |-> bill.amount, label |-> EventLabel(bill), sortTime |-> getTime(date)]

\* The monthly event, were it Paid by the current period.
RecurringEventCurrentPeriod(bill) == {MakeEvent(bill, recurringDueDate, bill.paidForMonth = currentYYYYMM, ~(bill.paidForMonth = currentYYYYMM) /\ ~isMonthInFuture(viewedYear, viewedMonth, today.y, today.m) /\ getTime(startOfDay(recurringDueDate)) < getTime(today)) : recurringDueDate \in getRecurringDueDateInViewedMonth(viewedYear, viewedMonth, bill.dayOfMonth)}

\* The event of a monthly bill in the viewed month: {event} or {}.
RecurringEvent(bill) == {MakeEvent(bill, recurringDueDate, bill.paidForMonth = viewedYYYYMM, ~(bill.paidForMonth = viewedYYYYMM) /\ ~isMonthInFuture(viewedYear, viewedMonth, today.y, today.m) /\ getTime(startOfDay(recurringDueDate)) < getTime(today)) : recurringDueDate \in getRecurringDueDateInViewedMonth(viewedYear, viewedMonth, bill.dayOfMonth)}

\* The one-time event, were the month compared and not the year.
OneTimeEventAnyYear(bill) == IF IsFalsy(bill.dueDate) THEN {} ELSE {MakeEvent(bill, oneTimeDueDate, bill.status = "paid", ~(bill.status = "paid") /\ getTime(startOfDay(oneTimeDueDate)) < getTime(today)) : oneTimeDueDate \in {dt \in parseYYYYMMDD(bill.dueDate) : ~(dt.m # viewedMonth)}}

\* The event of a one-time bill in the viewed month: {event} or {}.
OneTimeEvent(bill) == IF IsFalsy(bill.dueDate) THEN {} ELSE {MakeEvent(bill, oneTimeDueDate, bill.status = "paid", ~(bill.status = "paid") /\ getTime(startOfDay(oneTimeDueDate)) < getTime(today)) : oneTimeDueDate \in {dt \in parseYYYYMMDD(bill.dueDate) : ~(dt.y # viewedYear \/ dt.m # viewedMonth)}}

BillEvent(bill) == IF bill.recurrence = "monthly" THEN RecurringEvent(bill) ELSE OneTimeEvent(bill)

compareEvents(a, b) == IF a.sortTime # b.sortTime THEN a.sortTime - b.sortTime ELSE localeCompare(a.label, b.label)

RECURSIVE InsertEvent(_, _)
InsertEvent(s, x) == IF Len(s) = 0 THEN <<x>> ELSE IF compareEvents(Head(s), x) > 0 THEN <<x>> \o s ELSE <<Head(s)>> \o InsertEvent(Tail(s), x)

RECURSIVE SortEventsFrom(_, _)
SortEventsFrom(done, rest) == IF Len(rest) = 0 THEN done ELSE SortEventsFrom(InsertEvent(done, Head(rest)), Tail(rest))

RECURSIVE CalendarEvents(_, _)
\* The events of list[i..] in the viewed month, in the order of the list.
CalendarEvents(list, i) == IF i > Len(list) THEN <<>> ELSE (LET found == BillEvent(list[i]) IN IF found = {} THEN <<>> ELSE <<CHOOSE e \in found : TRUE>>) \o CalendarEvents(list, i + 1)

RECURSIVE EventsOn(_, _, _)
\* The events of day among events[i..], in the order they were pushed.
EventsOn(events, i, day) == IF i > Len(events) THEN <<>> ELSE (IF events[i].dayOfMonth = day THEN <<events[i]>> ELSE <<>>) \o EventsOn(events, i + 1, day)

\* eventsByDay: for every day of a month its events, sorted; <<>> for a
\* day the map has no entry for.
eventsByDay == LET events == CalendarEvents(bills, 1) IN [day \in 1..31 |-> SortEventsFrom(<<>>, EventsOn(events, 1, day))]

\* Months from the current month to the viewed one.
MonthsAway == (viewedYear - now.y) * 12 + (viewedMonth - now.m)

\* The buttons "Previous month" and "Next month".
PreviousMonth == /\ familyId # NoFamily
                 /\ MonthsAway > 0 - MaxMonthsAway
                 /\ viewedMonthDate' = NewDate(viewedMonthDate.y, viewedMonthDate.m - 1, 1)
                 /\ lastEvent' = Event("month", <<>>)
                 /\ UNCHANGED <<now, familyId, bills, store, processedKeys, passes, toggles, statusBusyBillId, billError, sortedBills, clicks, issuedKeys, dupIssued, failedKeys, scanDone, unpaidByUser, formVars, deleteVars>>

NextMonth == /\ familyId # NoFamily
             /\ MonthsAway < MaxMonthsAway
             /\ viewedMonthDate' = NewDate(viewedMonthDate.y, viewedMonthDate.m + 1, 1)
             /\ lastEvent' = Event("month", <<>>)
             /\ UNCHANGED <<now, familyId, bills, store, processedKeys, passes, toggles, statusBusyBillId, billError, sortedBills, clicks, issuedKeys, dupIssued, failedKeys, scanDone, unpaidByUser, formVars, deleteVars>>

\* The events the day sheets of the viewed month list.
selectedDayEvents == LET byDay == eventsByDay IN UNION {LET dayEvents == byDay[day] IN {dayEvents[k] : k \in 1..Len(dayEvents)} : day \in 1..31}

\* The click on "Mark paid" / "Mark unpaid" of an event in the day sheet:
\* the handler is called with the viewed period and the status the event
\* shows.
CalendarToggleStart(event) == LET currentStatus == event.status
                                  normalizedCurrentStatus == IF currentStatus = "paid" THEN "paid" ELSE "unpaid"
                                  nextStatus == IF normalizedCurrentStatus = "paid" THEN "unpaid" ELSE "paid"
                              IN /\ ToggleAccepted(event.bill)
                                 /\ clicks < MaxSheetClicks
                                 /\ clicks' = clicks + 1
                                 /\ billError' = "none"
                                 /\ statusBusyBillId' = event.bill.id
                                 /\ toggles' = Append(toggles, [fam |-> familyId, id |-> event.bill.id, nextStatus |-> nextStatus, recurrence |-> event.bill.recurrence, currentYYYYMM |-> viewedYYYYMM])
                                 /\ lastEvent' = Event("toggle", <<>>)
                                 /\ unpaidByUser' = (IF nextStatus = "unpaid" /\ viewedYYYYMM = currentYYYYMM THEN unpaidByUser \cup {[id |-> event.bill.id, key |-> AutopayKey(event.bill), written |-> FALSE]} ELSE unpaidByUser)
                                 /\ UNCHANGED <<now, viewedMonthDate, familyId, bills, store, processedKeys, passes, sortedBills, issuedKeys, dupIssued, failedKeys, scanDone, formVars, deleteVars>>

(***************************************************************************)
(* The bills menu, the tabs and delete mode of the dashboard.              *)
(***************************************************************************)
\* What no step of this group touches.
deleteFrame == <<now, viewedMonthDate, familyId, bills, sortedBills, processedKeys, passes, toggles, statusBusyBillId, clicks, schedulerHistory>>

\* The bills menu and the rows with their checkboxes are on the summary tab
\* of the dashboard.
SummaryShown == familyId # NoFamily /\ activeTab = "summary"

\* The click on the menu button, and the click or key that closes the menu.
ToggleBillsMenu == /\ SummaryShown
                   /\ isBillsMenuOpen' = ~isBillsMenuOpen
                   /\ lastEvent' = Event("menu", <<>>)
                   /\ UNCHANGED <<deleteFrame, store, billError, formVars, activeTab, isDeleteMode, selectedBillIds, deleteBusy, deletes>>

\* The menu item "Add bill".
OpenAddBillFromMenu == SummaryShown /\ isBillsMenuOpen /\ OpenAddBillModal

\* The close button and the backdrop of the add-bill form.
CloseAddBillModal == /\ isAddBillModalOpen
                     /\ isAddBillModalOpen' = FALSE
                     /\ lastEvent' = Event("close-form", <<>>)
                     /\ UNCHANGED <<deleteFrame, store, billError, deleteVars, billName, billAmount, billType, billDueDate, billDayOfMonth, autopay, accountLast4, billBusy, adds, edits, enabledByUser, optedInIds>>

\* handleEnterDeleteMode, the menu item "Delete bill".
EnterDeleteMode == /\ SummaryShown
                   /\ isBillsMenuOpen
                   /\ isBillsMenuOpen' = FALSE
                   /\ isAddBillModalOpen' = FALSE
                   /\ isDeleteMode' = TRUE
                   /\ selectedBillIds' = {}
                   /\ lastEvent' = Event("delete-mode", <<>>)
                   /\ UNCHANGED <<deleteFrame, store, billError, activeTab, deleteBusy, deletes, billName, billAmount, billType, billDueDate, billDayOfMonth, autopay, accountLast4, billBusy, adds, edits, enabledByUser, optedInIds>>

\* handleCancelDeleteMode, were the selection left as it is.
CancelDeleteModeKeepsSelection == /\ SummaryShown
                                  /\ isDeleteMode /\ ~deleteBusy
                                  /\ isDeleteMode' = FALSE
                                  /\ lastEvent' = Event("cancel-delete", <<>>)
                                  /\ UNCHANGED <<deleteFrame, store, billError, formVars, activeTab, isBillsMenuOpen, selectedBillIds, deleteBusy, deletes>>

\* handleCancelDeleteMode, the button "Cancel" of the toolbar.
CancelDeleteMode == /\ SummaryShown
                    /\ isDeleteMode /\ ~deleteBusy
                    /\ isDeleteMode' = FALSE
                    /\ selectedBillIds' = {}
                    /\ lastEvent' = Event("cancel-delete", <<>>)
                    /\ UNCHANGED <<deleteFrame, store, billError, formVars, activeTab, isBillsMenuOpen, deleteBusy, deletes>>

\* handleDeleteSelectionChange: the checkbox of the row of bills[i] is
\* clicked, checked being what the box turns to.
DeleteSelectionChange(i) == LET billId == bills[i].id
                                checked == billId \notin selectedBillIds
                            IN /\ SummaryShown
                               /\ isDeleteMode
                               /\ selectedBillIds' = (IF checked THEN selectedBillIds \cup {billId} ELSE selectedBillIds \ {billId})
                               /\ lastEvent' = Event("tick", <<>>)
                               /\ UNCHANGED <<deleteFrame, store, billError, formVars, activeTab, isBillsMenuOpen, isDeleteMode, deleteBusy, deletes>>

\* handleDeleteSelectedBills up to its await, the question confirmed.
DeleteSelectedBills == /\ SummaryShown
                       /\ isDeleteMode /\ ~deleteBusy
                       /\ ~(familyId = NoFamily \/ Cardinality(selectedBillIds) = 0)
                       /\ billError' = "none"
                       /\ deleteBusy' = TRUE
                       /\ deletes' = Append(deletes, [fam |-> familyId, idsToDelete |-> selectedBillIds])
                       /\ lastEvent' = Event("delete", <<>>)
                       /\ UNCHANGED <<deleteFrame, store, formVars, activeTab, isBillsMenuOpen, isDeleteMode, selectedBillIds>>

\* deleteDoc on the documents of one family, for the ids that went through.
deleteDocs(docs, ids) == SelectSeq(docs, LAMBDA d : d.id \notin ids)

\* Promise.all of the deleteDoc calls settles: all went through (ok), or
\* one was rejected while those of `done` went through.
DeleteCompletes(i, ok, done) == LET d == deletes[i] IN /\ done \subseteq d.idsToDelete
                                                      /\ ok = (done = d.idsToDelete)
                                                      /\ store' = [store EXCEPT ![d.fam] = deleteDocs(@, done)]
                                                      /\ isDeleteMode' = (IF ok THEN FALSE ELSE isDeleteMode)
                                                      /\ selectedBillIds' = (IF ok THEN {} ELSE selectedBillIds)
                                                      /\ billError' = (IF ok THEN billError ELSE "Failed to delete selected bills")
                                                      /\ deleteBusy' = FALSE
                                                      /\ deletes' = [k \in 1..(Len(deletes) - 1) |-> IF k < i THEN deletes[k] ELSE deletes[k + 1]]
                                                      /\ lastEvent' = Event(IF ok THEN "delete-ok" ELSE "delete-failed", <<>>)
                                                      /\ UNCHANGED <<deleteFrame, formVars, activeTab, isBillsMenuOpen>>

\* A click on a tab, and the effect on [activeTab].
SetActiveTab(tab) == /\ familyId # NoFamily
                     /\ tab # activeTab
                     /\ activeTab' = tab
                     /\ isBillsMenuOpen' = (IF tab # "calendar" THEN isBillsMenuOpen ELSE FALSE)
                     /\ isDeleteMode' = (IF tab # "calendar" THEN isDeleteMode ELSE FALSE)
                     /\ selectedBillIds' = (IF tab # "calendar" THEN selectedBillIds ELSE {})
                     /\ lastEvent' = Event("tab", <<>>)
                     /\ UNCHANGED <<deleteFrame, store, billError, formVars, deleteBusy, deletes>>

\* The user signs out: the effects on [user], then those on [familyId] and
\* [familyId, bills] as in FamilyChange.
Logout == /\ familyId' = NoFamily
          /\ bills' = <<>>
          /\ sortedBills' = SortBills(bills')
          /\ processedKeys' = (IF familyId # NoFamily THEN ClearProcessedKeys(processedKeys) ELSE processedKeys)
          /\ passes' = RunAutopayEffect(passes, NoFamily, bills', processedKeys')
          /\ isBillsMenuOpen' = FALSE
          /\ isAddBillModalOpen' = FALSE
          /\ isDeleteMode' = FALSE
          /\ selectedBillIds' = {}
          /\ issuedKeys' = {}
          /\ dupIssued' = {}
          /\ failedKeys' = {}
          /\ unpaidByUser' = {}
          /\ scanDone' = FALSE
          /\ lastEvent' = EventOf("logout", <<>>, processedKeys)
          /\ UNCHANGED <<now, viewedMonthDate, store, toggles, statusBusyBillId, billError, clicks, activeTab, deleteBusy, deletes, billName, billAmount, billType, billDueDate, billDayOfMonth, autopay, accountLast4, billBusy, adds, edits, enabledByUser, optedInIds>>

(***************************************************************************)
(* The documents and the clock the model starts from.                      *)
(***************************************************************************)
BillNames == <<(<<"b">>), (<<"a">>), (<<"B">>), (<<"a", "b">>)>>

BillAmounts == <<1, 2, 4, 8>>

P202403 == <<"2", "0", "2", "4", "-", "0", "3">>

P202402 == <<"2", "0", "2", "4", "-", "0", "2">>

P202404 == <<"2", "0", "2", "4", "-", "0", "4">>

D20240305 == <<"2", "0", "2", "4", "-", "0", "3", "-", "0", "5">>

D20240405 == <<"2", "0", "2", "4", "-", "0", "4", "-", "0", "5">>

D20240406 == <<"2", "0", "2", "4", "-", "0", "4", "-", "0", "6">>

D20240230 == <<"2", "0", "2", "4", "-", "0", "2", "-", "3", "0">>

D20231231 == <<"2", "0", "2", "3", "-", "1", "2", "-", "3", "1">>

\* The two-digit texts of 0..32, the text of n at position n + 1.
TwoDigits == <<(<<"0", "0">>), (<<"0", "1">>), (<<"0", "2">>), (<<"0", "3">>), (<<"0", "4">>), (<<"0", "5">>), (<<"0", "6">>), (<<"0", "7">>), (<<"0", "8">>), (<<"0", "9">>), (<<"1", "0">>), (<<"1", "1">>), (<<"1", "2">>), (<<"1", "3">>), (<<"1", "4">>), (<<"1", "5">>), (<<"1", "6">>), (<<"1", "7">>), (<<"1", "8">>), (<<"1", "9">>), (<<"2", "0">>), (<<"2", "1">>), (<<"2", "2">>), (<<"2", "3">>), (<<"2", "4">>), (<<"2", "5">>), (<<"2", "6">>), (<<"2", "7">>), (<<"2", "8">>), (<<"2", "9">>), (<<"3", "0">>), (<<"3", "1">>), (<<"3", "2">>)>>

\* The four-digit texts of the years of the model.
FourDigits == [y \in {50, 2022, 2023, 2024, 2025} |-> CASE y = 50 -> <<"0", "0", "5", "0">> [] y = 2022 -> <<"2", "0", "2", "2">> [] y = 2023 -> <<"2", "0", "2", "3">> [] y = 2024 -> <<"2", "0", "2", "4">> [] y = 2025 -> <<"2", "0", "2", "5">>]

\* Due-date texts of the calendar's runs: YYYY-MM-DD for a year, a month
\* number and a day number that may or may not name a day, and texts that
\* are not of that form.
DateTexts == {FourDigits[y] \o <<"-">> \o TwoDigits[m + 1] \o <<"-">> \o TwoDigits[d + 1] : y \in {50, 2023, 2024}, m \in {0, 1, 2, 12, 13}, d \in {0, 1, 28, 29, 30, 31, 32}}
             \cup {Null, <<>>, <<"2", "0", "2", "4", "-", "2", "-", "0", "1">>, <<"2", "0", "2", "4", "/", "0", "2", "/", "0", "1">>, <<"2", "0", "2", "a", "-", "0", "2", "-", "0", "1">>, <<"2", "0", "2", "4", "-", "0", "2", "-", "0", "1", "0">>, <<" ", "2", "0", "2", "4", "-", "0", "2", "-", "0", "1">>}

\* The clock of the calendar's runs: mid-February 2023 and 2024 and the
\* last day of 2023.
CalendarNows == {[y |-> 2023, m |-> 1, d |-> 15, h |-> 13], [y |-> 2024, m |-> 1, d |-> 10, h |-> 13], [y |-> 2023, m |-> 11, d |-> 31, h |-> 13]}

\* The clock: 10 March 2024 and 5 April 2024, early afternoon.
Nows == {[y |-> 2024, m |-> 2, d |-> 10, h |-> 13], [y |-> 2024, m |-> 3, d |-> 5, h |-> 13]}

\* The k-th document of the model: id, name and amount go with k.
Doc(k, recurrence, dayOfMonth, dueDate, status, paidForMonth, autopayField) == [id |-> BillIds[k], name |-> BillNames[k], amount |-> BillAmounts[k], dueDate |-> dueDate, status |-> status, recurrence |-> recurrence, dayOfMonth |-> dayOfMonth, paidForMonth |-> paidForMonth, autopay |-> autopayField]

\* Documents of the scheduler's runs: every way a bill can be or fail to
\* be eligible (autopay on, off or absent; due before, on or after today;
\* no day of month, no or an impossible due date; settled last month).
AutopayDocs(k) == {Doc(k, "monthly", {day}, Null, "unpaid", Null, "true") : day \in {1, 10, 40}} \cup {Doc(k, "monthly", {1}, Null, "unpaid", P202403, "true"), Doc(k, "monthly", {1}, Null, "unpaid", Null, "absent")} \cup {Doc(k, "null", {}, due, "unpaid", Null, "true") : due \in {Null, D20240305, D20240405, D20240406, D20240230}} \cup {Doc(k, "null", {}, D20240305, "unpaid", Null, "false")}

\* A document that is due and on autopay whatever the clock.
DueDoc(k) == Doc(k, "monthly", {1}, Null, "unpaid", Null, "true")

\* Documents of the views' runs, autopay off: every kind at the first two
\* positions of a list (a bill due last year at the first only), a few
\* kinds behind them.
ViewDocs(k) == IF k <= 2 THEN {Doc(k, "monthly", {day}, Null, status, pfm, "false") : day \in {1, 15, 31, 40}, status \in {"paid", "unpaid"}, pfm \in {Null, P202403}} \cup {Doc(k, "null", {}, due, status, pfm, "false") : due \in {Null, D20240305, D20240405, D20240230}, status \in {"paid", "unpaid"}, pfm \in {Null, P202403}} \cup (IF k = 1 THEN {Doc(k, "null", {}, D20231231, status, Null, "false") : status \in {"paid", "unpaid"}} ELSE {})
               ELSE {Doc(k, "monthly", {15}, Null, "unpaid", Null, "false"), Doc(k, "monthly", {1}, Null, "paid", P202403, "false"), Doc(k, "null", {}, Null, "unpaid", Null, "false"), Doc(k, "null", {}, D20240305, "paid", Null, "false")}

RECURSIVE DocLists(_, _)
\* The lists of n documents, the k-th drawn from universe(k).
DocLists(n, k) == IF k > n THEN {<<>>} ELSE {<<doc>> \o rest : doc \in ViewDocs(k), rest \in DocLists(n, k + 1)}

ViewDocLists == UNION {DocLists(n, 1) : n \in 0..MaxBills}

\* The clock of the day sheet's runs: 2024-04-05.
SheetNow == [y |-> 2024, m |-> 3, d |-> 5, h |-> 13]

\* First documents of the day sheet's runs.
SheetDocs == {Doc(1, "monthly", {15}, Null, "unpaid", pfm, "false") : pfm \in {Null, P202403, P202404}} \cup {Doc(1, "null", {}, D20240305, "unpaid", Null, "false")}

\* Family f1 has two bills, family f2 none.
InitialStores == {[f \in Families |-> IF f = "f1" THEN <<d1, DueDoc(2)>> ELSE <<>>] : d1 \in AutopayDocs(1)}

(***************************************************************************)
(* Specifications.                                                         *)
(***************************************************************************)
\* The state after construction, the clock drawn from nows.
InitAt(nows) == /\ now \in nows
                /\ viewedMonthDate = NewDate(now.y, now.m, 1)
                /\ familyId = NoFamily
                /\ bills = <<>>
                /\ sortedBills = <<>>
                /\ processedKeys = {}
                /\ passes = <<>>
                /\ toggles = <<>>
                /\ statusBusyBillId = Null
                /\ billError = "none"
                /\ clicks = 0
                /\ issuedKeys = {}
                /\ dupIssued = {}
                /\ failedKeys = {}
                /\ unpaidByUser = {}
                /\ scanDone = FALSE
                /\ lastEvent = Event("init", <<>>)
                /\ InitForm
                /\ activeTab = "summary"
                /\ isBillsMenuOpen = FALSE
                /\ isDeleteMode = FALSE
                /\ selectedBillIds = {}
                /\ deleteBusy = FALSE
                /\ deletes = <<>>

InitCommon == InitAt(Nows)

Init == InitCommon /\ store \in InitialStores

\* The feed, the family and the autopay scheduler.
Next == \/ FeedDeliver
        \/ \E f \in Families \cup {NoFamily} : FamilyChange(f)
        \/ \E i \in 1..Len(passes), ok \in BOOLEAN : AutopayCompletes(i, ok)

Spec == Init /\ [][Next]_vars

\* The same under the scheduling the program can count on: a snapshot
\* the store holds is delivered, and a pending updateDoc settles.
SpecLive == Init /\ [][Next]_vars /\ WF_vars(FeedDeliver) /\ WF_vars(\E i \in 1..Len(passes), ok \in BOOLEAN : AutopayCompletes(i, ok))

\* The same with the manual toggle of the dashboard, on fewer documents:
\* the first bill of family f1 is on autopay and due (by the month, or
\* once on 2024-03-05) or not yet due (2024-04-06), or was paid before the
\* session began (for 2024-04, or once).
ToggleStores == {[f \in Families |-> IF f = "f1" THEN <<d1, DueDoc(2)>> ELSE <<>>] : d1 \in {Doc(1, "monthly", {1}, Null, "unpaid", Null, "true"), Doc(1, "null", {}, D20240305, "unpaid", Null, "true"), Doc(1, "null", {}, D20240406, "unpaid", Null, "true"), Doc(1, "monthly", {1}, Null, "unpaid", P202404, "true"), Doc(1, "null", {}, D20240305, "paid", Null, "true")}}

InitToggle == InitCommon /\ store \in ToggleStores

NextToggle == \/ FeedDeliver
              \/ \E f \in Families \cup {NoFamily} : FamilyChange(f)
              \/ \E i \in 1..Len(passes), ok \in BOOLEAN : AutopayCompletes(i, ok)
              \/ \E i \in 1..Len(bills) : ToggleStart(i)
              \/ \E i \in 1..Len(toggles), ok \in BOOLEAN : ToggleCompletes(i, ok)

SpecToggle == InitToggle /\ [][NextToggle]_vars

\* The views: the clock and the documents of family f1 are the inputs.
ViewStores == {[f \in Families |-> IF f = "f1" THEN docs ELSE <<>>] : docs \in ViewDocLists}

InitView == InitCommon /\ store \in ViewStores

NextView == \/ FeedDeliver
            \/ \E f \in {"f1"} : FamilyChange(f)
            \/ PreviousMonth
            \/ NextMonth

SpecView == InitView /\ [][NextView]_vars

\* The status buttons of the dashboard and of the calendar's day sheet:
\* family f1 has two bills off autopay, the first by the month and settled
\* for no period, for 2024-03 or for 2024-04, or due once.
SheetStores == {[f \in Families |-> IF f = "f1" THEN docs ELSE <<>>] : docs \in {<<d1, Doc(2, "monthly", {1}, Null, "unpaid", Null, "false")>> : d1 \in SheetDocs}}

InitSheet == InitAt({SheetNow}) /\ store \in SheetStores

NextSheet == \/ FeedDeliver
             \/ \E f \in {"f1"} : FamilyChange(f)
             \/ PreviousMonth
             \/ NextMonth
             \/ \E i \in 1..Len(bills) : ToggleStart(i)
             \/ \E event \in selectedDayEvents : CalendarToggleStart(event)
             \/ \E i \in 1..Len(toggles), ok \in BOOLEAN : ToggleCompletes(i, ok)

SpecSheet == InitSheet /\ [][NextSheet]_vars

\* Delete mode: family f1 has two bills and family f2 one, all off autopay.
DeleteStores == {[f \in Families |-> IF f = "f1" THEN <<Doc(1, "monthly", {15}, Null, "unpaid", Null, "false"), Doc(2, "null", {}, D20240305, "unpaid", Null, "false")>> ELSE <<Doc(3, "monthly", {1}, Null, "unpaid", Null, "false")>>]}

InitDelete == InitAt({SheetNow}) /\ store \in DeleteStores

NextDelete == \/ FeedDeliver
              \/ \E f \in Families \cup {NoFamily} : FamilyChange(f)
              \/ Logout
              \/ \E tab \in {"summary", "calendar"} : SetActiveTab(tab)
              \/ ToggleBillsMenu
              \/ OpenAddBillFromMenu
              \/ CloseAddBillModal
              \/ EnterDeleteMode
              \/ CancelDeleteMode
              \/ \E i \in 1..Len(bills) : DeleteSelectionChange(i)
              \/ DeleteSelectedBills
              \/ \E i \in 1..Len(deletes), ok \in BOOLEAN : \E done \in SUBSET deletes[i].idsToDelete : DeleteCompletes(i, ok, done)

SpecDelete == InitDelete /\ [][NextDelete]_vars

\* The calendar: the clock stands in February or at the end of a year, and
\* family f1 has one bill of any kind, alone or before a monthly bill due
\* on the 31st.
CalendarDocs == {Doc(1, "monthly", {day}, Null, "unpaid", pfm, "false") : day \in {1, 29, 31}, pfm \in {Null, P202402, P202403}} \cup {Doc(1, "null", {}, due, status, Null, "false") : due \in DateTexts, status \in {"paid", "unpaid"}}

CalendarStores == {[f \in Families |-> IF f = "f1" THEN docs ELSE <<>>] : docs \in {<<d1>> : d1 \in CalendarDocs} \cup {<<d1, Doc(2, "monthly", {31}, Null, "unpaid", Null, "false")>> : d1 \in CalendarDocs}}

InitCalendar == InitAt(CalendarNows) /\ store \in CalendarStores

SpecCalendar == InitCalendar /\ [][NextView]_vars

\* The add-bill form: family f1 starts with one bill of old, stored
\* without an autopay field and due on the 1st; family f2 with none.
InitAddBill == InitCommon /\ store = [f \in Families |-> IF f = "f1" THEN <<Doc(1, "monthly", {1}, Null, "unpaid", Null, "absent")>> ELSE <<>>]

NextAddBill == \/ FeedDeliver
               \/ \E f \in Families \cup {NoFamily} : FamilyChange(f)
               \/ \E i \in 1..Len(passes), ok \in BOOLEAN : AutopayCompletes(i, ok)
               \/ OpenAddBillModal
               \/ \E v \in FormNames : SetBillName(v)
               \/ \E v \in FormAmounts : SetBillAmount(v)
               \/ \E v \in {"one-time", "monthly"} : SetBillType(v)
               \/ \E v \in FormDueDates : SetBillDueDate(v)
               \/ \E v \in FormDays : SetBillDayOfMonth(v)
               \/ \E v \in BOOLEAN : SetAutopay(v)
               \/ \E v \in FormLast4 : SetAccountLast4(v)
               \/ HandleAddBill
               \/ \E i \in 1..Len(adds), ok \in BOOLEAN : AddBillCompletes(i, ok)

SpecAddBill == InitAddBill /\ [][NextAddBill]_vars

(***************************************************************************)
(* What the properties below speak of, stated without the program's own    *)
(* parsing and formatting: periods and calendar days as the texts and      *)
(* numbers they are.                                                       *)
(***************************************************************************)
YearText(y) == FourDigits[y]

MonthTexts == [m \in 1..12 |-> TwoDigits[m + 1]]

\* The period YYYY-MM of the 0-based month m0 of year y.
PeriodText(y, m0) == YearText(y) \o <<"-">> \o MonthTexts[m0 + 1]

MonthLengths(y) == <<31, IF (y % 4 = 0 /\ y % 100 # 0) \/ y % 400 = 0 THEN 29 ELSE 28, 31, 30, 31, 30, 31, 31, 30, 31, 30, 31>>

\* The calendar day a due-date text names, <<year, month, day>>, or <<>>
\* when it names none.
CalendarDayOf(text) == IF Len(text) # 10 \/ text[5] # "-" \/ text[8] # "-" THEN <<>>
                       ELSE LET yt == SubSeq(text, 1, 4)
                                mt == SubSeq(text, 6, 7)
                                dt == SubSeq(text, 9, 10)
                                ys == {y \in DOMAIN FourDigits : FourDigits[y] = yt}
                                ms == {m \in 1..12 : TwoDigits[m + 1] = mt}
                                ds == {d \in 1..31 : TwoDigits[d + 1] = dt}
                            IN IF ys = {} \/ ms = {} \/ ds = {} THEN <<>>
                               ELSE LET y == CHOOSE y \in ys : TRUE
                                        m == CHOOSE m \in ms : TRUE
                                        d == CHOOSE d \in ds : TRUE
                                    IN IF d <= MonthLengths(y)[m] THEN <<y, m, d>> ELSE <<>>

Today == <<now.y, now.m + 1, now.d>>

\* Day a is strictly before day b.
DayBefore(a, b) == a[1] < b[1] \/ (a[1] = b[1] /\ (a[2] < b[2] \/ (a[2] = b[2] /\ a[3] < b[3])))

\* The bill is unpaid for the current period.
StatedUnpaid(bill) == IF bill.recurrence = "monthly" THEN bill.paidForMonth # PeriodText(now.y, now.m) ELSE bill.status # "paid"

\* The due day of the bill, <<>> when none resolves: the day of month
\* clamped into the current month, or the day the due date names.
StatedDue(bill) == IF bill.recurrence = "monthly" THEN (IF bill.dayOfMonth = {} THEN <<>> ELSE LET n == CHOOSE n \in bill.dayOfMonth : TRUE
                                                                                                    last == MonthLengths(now.y)[now.m + 1]
                                                                                                IN <<now.y, now.m + 1, IF n < 1 THEN 1 ELSE IF n > last THEN last ELSE n>>) ELSE CalendarDayOf(bill.dueDate)

\* The events of the calendar, of every day of the viewed month.
AllEvents == LET byDay == eventsByDay IN UNION {LET dayEvents == byDay[day] IN {dayEvents[k] : k \in 1..Len(dayEvents)} : day \in 1..31}

(***************************************************************************)
(* Properties of the views (SpecView).                                     *)
(***************************************************************************)
\* C7: a monthly bill is derived Paid for a period exactly when its
\* paidForMonth is that period's text, whatever its stored status; a
\* one-time bill has its stored status, whatever its paidForMonth; on the
\* dashboard for the current period, in the calendar for the viewed one.
C7_DerivedStatus == /\ \A i \in 1..Len(bills) : IF bills[i].recurrence = "monthly" THEN getDerivedStatus(bills[i]) = (IF bills[i].paidForMonth = PeriodText(now.y, now.m) THEN "paid" ELSE "unpaid") ELSE getDerivedStatus(bills[i]) = bills[i].status
                    /\ \A e \in AllEvents : IF e.bill.recurrence = "monthly" THEN (e.status = "paid") = (e.bill.paidForMonth = PeriodText(viewedYear, viewedMonth)) ELSE (e.status = "paid") = (e.bill.status = "paid")

\* C7 witness: a monthly bill due on the 15th, stored unpaid and settled
\* for 2024-03, is Paid and not overdue on the dashboard of March 2024,
\* and its event in the calendar of another month is not Paid.
C7_Witness == \E i \in 1..Len(bills) : /\ bills[i].recurrence = "monthly"
                                       /\ bills[i].dayOfMonth = {15}
                                       /\ bills[i].status = "unpaid"
                                       /\ bills[i].paidForMonth = P202403
                                       /\ currentYYYYMM = P202403
                                       /\ getDerivedStatus(bills[i]) = "paid"
                                       /\ ~isOverdue(bills[i])
                                       /\ viewedYYYYMM = P202404
                                       /\ \E e \in AllEvents : e.billId = bills[i].id /\ e.status # "paid"

\* C8: a bill is overdue exactly when it is unpaid for the current
\* period, its due day resolves, and that day is strictly before today.
C8_Overdue == \A i \in 1..Len(bills) : isOverdue(bills[i]) = (StatedUnpaid(bills[i]) /\ StatedDue(bills[i]) # <<>> /\ DayBefore(StatedDue(bills[i]), Today))

\* C8 witness: on 10 March 2024 an unpaid one-time bill due 2024-03-05 is
\* overdue, while a monthly bill due on the 15th is not.
C8_Witness == /\ Today = <<2024, 3, 10>>
              /\ \E i \in 1..Len(bills) : bills[i].recurrence = "null" /\ bills[i].dueDate = D20240305 /\ bills[i].status = "unpaid" /\ isOverdue(bills[i])
              /\ \E i \in 1..Len(bills) : bills[i].recurrence = "monthly" /\ bills[i].dayOfMonth = {15} /\ StatedUnpaid(bills[i]) /\ ~isOverdue(bills[i])

\* A one-time bill whose due date is missing or names no day.
NoDueDate(bill) == bill.recurrence # "monthly" /\ CalendarDayOf(bill.dueDate) = <<>>

\* C9 as stated: in the sorted view a one-time bill without a due day
\* comes after every bill with one, and it is never overdue.
C9_Original == /\ \A i, j \in 1..Len(sortedBills) : NoDueDate(sortedBills[i]) /\ StatedDue(sortedBills[j]) # <<>> => j < i
               /\ \A i \in 1..Len(bills) : NoDueDate(bills[i]) => ~isOverdue(bills[i])

\* C9 as amended: in the sorted view a one-time bill without a due day
\* comes after every bill of the same derived status that has one, and it
\* is never overdue.
C9_NoDueDateLast == /\ \A i, j \in 1..Len(sortedBills) : NoDueDate(sortedBills[i]) /\ StatedDue(sortedBills[j]) # <<>> /\ StatedUnpaid(sortedBills[i]) = StatedUnpaid(sortedBills[j]) => j < i
                    /\ \A i \in 1..Len(bills) : NoDueDate(bills[i]) => ~isOverdue(bills[i])

\* C9 witness: the snapshot lists an unpaid one-time bill with the
\* impossible due date 2024-02-30 before an unpaid bill that has a due
\* day, and the sorted view lists it behind.
C9_Witness == /\ Len(bills) = 2
              /\ bills[1].recurrence = "null" /\ bills[1].dueDate = D20240230 /\ bills[1].status = "unpaid"
              /\ StatedUnpaid(bills[2]) /\ StatedDue(bills[2]) # <<>>
              /\ sortedBills = <<bills[2], bills[1]>>

\* The sort key of a is at most that of b: unpaid before paid, then the
\* due day with none last, then the name.
KeyAtMost(a, b) == \/ StatedUnpaid(a) /\ ~StatedUnpaid(b)
                   \/ /\ StatedUnpaid(a) = StatedUnpaid(b)
                      /\ \/ StatedDue(a) # <<>> /\ StatedDue(b) = <<>>
                         \/ StatedDue(a) # <<>> /\ StatedDue(b) # <<>> /\ DayBefore(StatedDue(a), StatedDue(b))
                         \/ StatedDue(a) = StatedDue(b) /\ localeCompare(a.name, b.name) <= 0

\* C10: the sorted view is a permutation of the snapshot, ordered by the
\* key (unpaid first, due day with none last, name); no unpaid bill comes
\* after a paid one.
C10_SortedView == /\ Len(sortedBills) = Len(bills)
                  /\ \A i \in 1..Len(bills) : Cardinality({k \in 1..Len(bills) : sortedBills[k] = bills[i]}) = Cardinality({k \in 1..Len(bills) : bills[k] = bills[i]})
                  /\ \A i, j \in 1..Len(sortedBills) : i < j => KeyAtMost(sortedBills[i], sortedBills[j])
                  /\ \A i, j \in 1..Len(sortedBills) : i < j => ~(~StatedUnpaid(sortedBills[i]) /\ StatedUnpaid(sortedBills[j]))

\* C10 witness: the snapshot lists a paid bill before an unpaid one, and
\* the sorted view turns them round.
C10_Witness == /\ Len(bills) = 2
               /\ ~StatedUnpaid(bills[1]) /\ StatedUnpaid(bills[2])
               /\ sortedBills = <<bills[2], bills[1]>>

(***************************************************************************)
(* Properties of the summary totals (SpecView).                            *)
(***************************************************************************)
RECURSIVE StatedSum(_)
\* The sum of the amounts of the bills at the positions S of the list.
StatedSum(S) == IF S = {} THEN 0 ELSE LET i == CHOOSE i \in S : TRUE IN bills[i].amount + StatedSum(S \ {i})

\* The one-time bill has a due date that names a day of the current month.
StatedOneTimeThisMonth(bill) == bill.recurrence # "monthly" /\ CalendarDayOf(bill.dueDate) # <<>> /\ CalendarDayOf(bill.dueDate)[1] = now.y /\ CalendarDayOf(bill.dueDate)[2] = now.m + 1

\* C11 as stated: dueThisMonthTotal is the sum of the amounts of every
\* monthly bill and of every one-time bill whose due date is a valid day
\* of the current year and month, paid or not.
C11_Original == dueThisMonthTotal = StatedSum({i \in 1..Len(bills) : bills[i].recurrence = "monthly" \/ StatedOneTimeThisMonth(bills[i])})

\* C11: dueThisMonthTotal is the sum of the amounts of every monthly bill
\* that has a day of month and of every one-time bill whose due date is a
\* valid day of the current year and month, paid or not.
C11_DueThisMonth == dueThisMonthTotal = StatedSum({i \in 1..Len(bills) : (bills[i].recurrence = "monthly" /\ bills[i].dayOfMonth # {}) \/ StatedOneTimeThisMonth(bills[i])})

\* C11 witness: March 2024 with a paid monthly bill and a one-time bill
\* due 2024-04-05: the total is the amount of the monthly bill alone.
C11_Witness == /\ Len(bills) = 2
               /\ currentYYYYMM = P202403
               /\ bills[1].recurrence = "monthly" /\ bills[1].dayOfMonth = {31} /\ ~StatedUnpaid(bills[1])
               /\ bills[2].recurrence # "monthly" /\ bills[2].dueDate = D20240405
               /\ dueThisMonthTotal = bills[1].amount

\* C12: paidThisMonthTotal is the sum of the amounts of the bills that are
\* counted in dueThisMonthTotal and are derived Paid, and every bill that
\* adds to paidThisMonthTotal adds to dueThisMonthTotal as well, for every
\* list of bills the feed delivers.
C12_PaidWithinDue == /\ \A i \in 1..Len(bills) : TotalsOf(<<bills[i]>>).paidThisMonthTotal > 0 => TotalsOf(<<bills[i]>>).dueThisMonthTotal > 0
                     /\ paidThisMonthTotal = StatedSum({i \in 1..Len(bills) : TotalsOf(<<bills[i]>>).dueThisMonthTotal > 0 /\ ~StatedUnpaid(bills[i])})

\* C13: overdueTotal is the sum of the amounts of exactly the overdue
\* bills: those unpaid for the current period whose due day is before
\* today, one-time bills due in an earlier month or year among them, and
\* no bill that is derived Paid.
C13_OverdueTotal == overdueTotal = StatedSum({i \in 1..Len(bills) : StatedUnpaid(bills[i]) /\ StatedDue(bills[i]) # <<>> /\ DayBefore(StatedDue(bills[i]), Today)})

\* C13 witness: on 2024-04-05 an unpaid one-time bill due 2023-12-31 and an
\* unpaid one-time bill due 2024-03-05 are both in the total, and nothing
\* is due this month.
C13_Witness == /\ Len(bills) = 2
               /\ currentYYYYMM = P202404
               /\ bills[1].recurrence # "monthly" /\ bills[1].dueDate = D20231231 /\ bills[1].status = "unpaid"
               /\ bills[2].recurrence # "monthly" /\ bills[2].dueDate = D20240305 /\ bills[2].status = "unpaid"
               /\ overdueTotal = bills[1].amount + bills[2].amount
               /\ dueThisMonthTotal = 0

(***************************************************************************)
(* Properties of the calendar (SpecCalendar).                              *)
(***************************************************************************)
\* The places <<day, position>> of the events of a bill in the calendar.
EventPlaces(id) == LET byDay == eventsByDay IN UNION {{<<day, k>> : k \in {k \in 1..Len(byDay[day]) : byDay[day][k].billId = id}} : day \in 1..31}

\* The day of the displayed month a day of month falls on.
DisplayedDay(n) == LET last == MonthLengths(viewedYear)[viewedMonth + 1] IN IF n < 1 THEN 1 ELSE IF n > last THEN last ELSE n

\* C14: in every displayed month each monthly bill that has a day of month
\* has exactly one event, on that day clamped into the displayed month,
\* and the event is Paid exactly when the bill is settled for the
\* displayed period, whatever the current one.
C14_MonthlyEvent == LET byDay == eventsByDay
                    IN \A i \in 1..Len(bills) : bills[i].recurrence = "monthly" /\ bills[i].dayOfMonth # {}
                          => /\ Cardinality(EventPlaces(bills[i].id)) = 1
                             /\ \A n \in bills[i].dayOfMonth : \E k \in 1..Len(byDay[DisplayedDay(n)]) : /\ byDay[DisplayedDay(n)][k].billId = bills[i].id
                                                                                                         /\ byDay[DisplayedDay(n)][k].dayOfMonth = DisplayedDay(n)
                                                                                                         /\ (byDay[DisplayedDay(n)][k].status = "paid") = (bills[i].paidForMonth = PeriodText(viewedYear, viewedMonth))

\* C14 witness: February 2023 is displayed and the one event of a monthly
\* bill due on the 31st stands on day 28.
C14_Witness == /\ viewedYear = 2023 /\ viewedMonth = 1
               /\ Len(bills) = 1
               /\ bills[1].recurrence = "monthly" /\ bills[1].dayOfMonth = {31}
               /\ EventPlaces(bills[1].id) = {<<28, 1>>}

\* C15: a one-time bill has an event in the displayed month exactly when
\* its due date names a day of the displayed year and month, the event
\* then stands on that day and is the only one of the bill; a bill whose
\* due date is missing or names no day has no event in any month.
C15_OneTimeEvent == LET byDay == eventsByDay
                    IN \A i \in 1..Len(bills) : bills[i].recurrence # "monthly"
                          => LET due == IF IsFalsy(bills[i].dueDate) THEN <<>> ELSE CalendarDayOf(bills[i].dueDate)
                             IN IF due # <<>> /\ due[1] = viewedYear /\ due[2] = viewedMonth + 1
                                THEN Cardinality(EventPlaces(bills[i].id)) = 1 /\ \E k \in 1..Len(byDay[due[3]]) : byDay[due[3]][k].billId = bills[i].id
                                ELSE EventPlaces(bills[i].id) = {}

\* C15 witness: February 2024 is displayed; a one-time bill due 2024-02-29
\* has its event on day 29.
C15_Witness == /\ viewedYear = 2024 /\ viewedMonth = 1
               /\ Len(bills) = 1
               /\ bills[1].recurrence # "monthly" /\ CalendarDayOf(bills[1].dueDate) = <<2024, 2, 29>>
               /\ EventPlaces(bills[1].id) = {<<29, 1>>}

\* C16: while the displayed month is after today's month, by the year and
\* then the month, no event of the calendar is overdue, be it of a monthly
\* or of a one-time bill.
C16_NoOverdueInFuture == (viewedYear > now.y \/ (viewedYear = now.y /\ viewedMonth > now.m)) => \A e \in AllEvents : e.status # "overdue"

\* C16 witness: on 2023-12-31 January 2024 is displayed, with the events
\* of an unpaid one-time bill due 2024-01-01 and an unpaid monthly bill.
C16_Witness == /\ now.y = 2023 /\ now.m = 11
               /\ viewedYear = 2024 /\ viewedMonth = 0
               /\ Len(bills) = 2
               /\ bills[1].recurrence # "monthly" /\ bills[1].status = "unpaid"
               /\ EventPlaces(bills[1].id) = {<<1, 1>>}
               /\ EventPlaces(bills[2].id) = {<<31, 1>>}
               /\ \A e \in AllEvents : e.status = "unpaid"

\* C17: parseYYYYMMDD returns a date exactly when the text has the form
\* YYYY-MM-DD and its three parts name a day of the calendar (month 1..12,
\* day within the length of the month, leap years respected), the date of
\* that day; for every other text it returns none.
C17_ParsesExactlyCalendarDays == \A i \in 1..Len(bills) : bills[i].dueDate # Null => parseYYYYMMDD(bills[i].dueDate) = (LET day == CalendarDayOf(bills[i].dueDate) IN IF day = <<>> THEN {} ELSE {[y |-> day[1], m |-> day[2] - 1, d |-> day[3], h |-> 0]})

\* The day of month n clamped into the 0-based month m0 of year y.
ClampedDay(y, m0, n) == LET last == MonthLengths(y)[m0 + 1] IN IF n < 1 THEN 1 ELSE IF n > last THEN last ELSE n

\* C18: for every year, month and integer day of month the recurring due
\* date is the day min(max(dayOfMonth, 1), lastDay) of that same year and
\* month, lastDay being the number of days of the month: in the current
\* month on the dashboard, in the given month in the calendar.
C18_ClampedDueDate == \A n \in -1..33 : /\ getRecurringDueDateInCurrentMonth({n}) = {[y |-> now.y, m |-> now.m, d |-> ClampedDay(now.y, now.m, n), h |-> 0]}
                                        /\ \A y \in {viewedYear, 2023, 2024, 2100} : getRecurringDueDateInViewedMonth(y, viewedMonth, {n}) = {[y |-> y, m |-> viewedMonth, d |-> ClampedDay(y, viewedMonth, n), h |-> 0]}

\* C18 witness: in February 2024 a monthly bill due on the 31st is in the
\* list; the 31st resolves to 29 February 2024 on the dashboard and to
\* 28 February 2023 in the calendar of that month.
C18_Witness == /\ now.y = 2024 /\ now.m = 1
               /\ viewedYear = 2024 /\ viewedMonth = 1
               /\ \E i \in 1..Len(sortedBills) : sortedBills[i].recurrence = "monthly" /\ sortedBills[i].dayOfMonth = {31}
               /\ getRecurringDueDateInCurrentMonth({31}) = {[y |-> 2024, m |-> 1, d |-> 29, h |-> 0]}
               /\ getRecurringDueDateInViewedMonth(2023, viewedMonth, {31}) = {[y |-> 2023, m |-> 1, d |-> 28, h |-> 0]}

(***************************************************************************)
(* Properties of the autopay scheduler (Spec, SpecToggle).                 *)
(***************************************************************************)
\* The bill is one autopay may settle: switched on, unpaid for the current
\* period, and due on a day that is today or earlier.
StatedEligible(bill) == bill.autopay = "true" /\ StatedUnpaid(bill) /\ StatedDue(bill) # <<>> /\ ~DayBefore(Today, StatedDue(bill))

\* The (bill, period) key of a bill: the current period for a monthly
\* bill, the due date for a one-time bill.
StatedKey(bill) == bill.id \o <<":">> \o (IF bill.recurrence = "monthly" THEN PeriodText(now.y, now.m) ELSE bill.dueDate)

\* C1: within one session and one family context no autopay mutation is
\* issued twice for the same (bill, period) key.
C1_OneMutationPerKey == dupIssued = {}

\* C2: once a pass has run to completion on a snapshot, a scan of the same
\* snapshot in the same family issues no mutation and leaves the processed
\* keys as they are; and a mutation issued for a monthly bill sets the
\* current period.
C2_RescanIsNoOp == [][/\ (scanDone /\ familyId' = familyId /\ bills' = bills /\ lastEvent'.kind \in {"feed", "rescan"}) => (lastEvent'.key = Null /\ issuedKeys' = issuedKeys /\ processedKeys' = processedKeys /\ \A k \in 1..Len(passes') : passes'[k].cancelled)
                      /\ \A k \in 1..Len(passes') : passes'[k].snap[passes'[k].idx].recurrence = "monthly" => passes'[k].write = [paidForMonth |-> PeriodText(now.y, now.m), status |-> "unchanged"]]_vars

\* C2 witness: on 5 April 2024 the snapshot holds an autopay monthly bill
\* due on the 1st and not settled for 2024-04, its key is processed, and
\* the snapshot has just been scanned again.
C2_Witness == /\ lastEvent.kind = "rescan"
              /\ Today = <<2024, 4, 5>>
              /\ \E i \in 1..Len(bills) : /\ bills[i].recurrence = "monthly" /\ bills[i].dayOfMonth = {1} /\ bills[i].paidForMonth = Null
                                          /\ StatedEligible(bills[i])
                                          /\ StatedKey(bills[i]) \in processedKeys
              /\ passes = <<>>

\* The first bill behind position i of snap that autopay may settle and
\* whose key is not among keys; 0 when there is none.
NextEligible(snap, i, keys) == IF \E j \in (i + 1)..Len(snap) : StatedEligible(snap[j]) /\ StatedKey(snap[j]) \notin keys THEN CHOOSE j \in (i + 1)..Len(snap) : StatedEligible(snap[j]) /\ StatedKey(snap[j]) \notin keys /\ \A h \in (i + 1)..(j - 1) : ~(StatedEligible(snap[h]) /\ StatedKey(snap[h]) \notin keys) ELSE 0

\* C3: a failed autopay mutation raises no error and changes neither the
\* store nor the snapshot, so the bill stays unpaid; its key is marked;
\* the pass, unless superseded, goes on to the next bill it may settle;
\* no key that failed is issued again in the same family context; and the
\* toggle of every bill stays as open as it was.
C3_FailureSwallowed == [][/\ lastEvent'.kind = "autopay-failed" => /\ billError' = billError /\ store' = store /\ bills' = bills
                                                                   /\ \A i \in 1..Len(bills) : ToggleAccepted(bills[i])' = ToggleAccepted(bills[i])
                                                                   /\ \E i \in 1..Len(passes) : LET p == passes[i]
                                                                                                    j == IF p.cancelled THEN 0 ELSE NextEligible(p.snap, p.idx, processedKeys')
                                                                                                IN /\ p.key \in processedKeys'
                                                                                                   /\ p.key \in failedKeys'
                                                                                                   /\ IF j = 0 THEN Len(passes') = Len(passes) - 1 ELSE passes'[i].snap = p.snap /\ passes'[i].idx = j /\ ~passes'[i].cancelled
                          /\ failedKeys' \subseteq processedKeys'
                          /\ (familyId' = familyId /\ lastEvent'.key # Null) => lastEvent'.key \notin failedKeys]_vars

\* C3 witness: the autopay mutation of a bill failed, the bill is still
\* unpaid, and the user's click on its toggle has been taken.
C3_Witness == /\ lastEvent.kind = "toggle"
              /\ \E i \in 1..Len(bills) : /\ statusBusyBillId = bills[i].id
                                          /\ StatedKey(bills[i]) \in failedKeys
                                          /\ StatedKey(bills[i]) \in processedKeys
                                          /\ getDerivedStatus(bills[i]) = "unpaid"
              /\ \E k \in 1..Len(toggles) : toggles[k].id = statusBusyBillId /\ toggles[k].nextStatus = "paid"
              /\ billError = "none"

\* C4: every autopay mutation in flight was issued for a bill that, in
\* the snapshot scanned, is switched on, unpaid for the current period
\* and due on a day that is today or earlier.
C4_OnlyEligible == \A k \in 1..Len(passes) : StatedEligible(passes[k].snap[passes[k].idx])

\* C4 witness: on 5 April 2024 a mutation is in flight for a one-time
\* bill due that day.
C4_Witness == \E k \in 1..Len(passes) : /\ passes[k].snap[passes[k].idx].dueDate = D20240405
                                        /\ Today = <<2024, 4, 5>>
                                        /\ passes[k].write.status = "paid"

StatedShape(recurrence, write) == IF recurrence = "monthly" THEN write.paidForMonth # Unchanged /\ write.status = "unchanged" ELSE write.paidForMonth = Unchanged /\ write.status # "unchanged"

\* C20: every write of the paid state on its way to the store, of the
\* manual toggle as of autopay, has exactly one of the two shapes, by the
\* recurrence of the bill: paidForMonth alone for a monthly bill, status
\* alone for a one-time bill, never both fields.
C20_OneShapePerRecurrence == /\ \A i \in 1..Len(passes) : StatedShape(passes[i].snap[passes[i].idx].recurrence, passes[i].write)
                             /\ \A i \in 1..Len(toggles) : StatedShape(toggles[i].recurrence, ToggleWrite(toggles[i], store[toggles[i].fam]))

\* C21: a pass that has been superseded issues no further mutation: when
\* the mutation it had in flight settles it leaves the loop, whatever
\* bills are behind; and cancelling a pass changes nothing of the one
\* mutation it has in flight.
C21_SupersededPassStops == [][/\ lastEvent'.superseded => (lastEvent'.key = Null /\ issuedKeys' = issuedKeys /\ Len(passes') = Len(passes) - 1)
                              /\ {passes'[k] : k \in {k \in 1..Len(passes') : passes'[k].cancelled}} \subseteq {[passes[k] EXCEPT !.cancelled = TRUE] : k \in 1..Len(passes)}]_vars

\* C21 witness: the mutation of a superseded pass has settled and the pass
\* issued nothing more, although the snapshot holds a bill autopay may
\* settle for which no mutation was issued yet.
C21_Witness == /\ lastEvent.superseded
               /\ lastEvent.key = Null
               /\ familyId # NoFamily
               /\ \E i \in 1..Len(bills) : StatedEligible(bills[i]) /\ StatedKey(bills[i]) \notin processedKeys \cup issuedKeys

\* The lists that hold the elements of list in another order.
Reorderings(list) == {[i \in 1..Len(list) |-> list[f[i]]] : f \in {f \in [1..Len(list) -> 1..Len(list)] : \A a, b \in 1..Len(list) : f[a] = f[b] => a = b}}

\* C22: for one snapshot, one today and one set of processed keys to start
\* from, a pass that runs to completion issues the same mutations and ends
\* with the same processed keys whatever the order of the bills.
C22_OrderOfBillsIrrelevant == \A start \in {processedKeys} \cup SUBSET {StatedKey(bills[i]) : i \in 1..Len(bills)} : \A list \in Reorderings(bills) : RunToCompletion(list, 1, start, {}) = RunToCompletion(bills, 1, start, {})

\* C22 witness: a pass has run to completion on a snapshot of two bills,
\* one autopay may settle and one it may not; from no processed keys, a
\* pass over either order issues the one mutation.
C22_Witness == /\ scanDone /\ passes = <<>>
               /\ Len(bills) = 2
               /\ ~StatedEligible(bills[1]) /\ StatedEligible(bills[2])
               /\ StatedKey(bills[2]) \in processedKeys
               /\ \A list \in Reorderings(bills) : Cardinality(RunToCompletion(list, 1, {}, {}).issued) = 1

\* C23: every autopay mutation in flight is addressed to the family whose
\* feed delivered the bill it settles: the bill is a document of the
\* family the write goes to, also in the pass that runs when the family
\* changes to another one and no snapshot of the new family has arrived.
C23_WriteGoesToOwnFamily == \A i \in 1..Len(passes) : \E k \in 1..Len(store[passes[i].fam]) : store[passes[i].fam][k].id = passes[i].snap[passes[i].idx].id

\* C24: after a change of family has reset the processed keys, the set
\* holds only keys of mutations issued by passes started since the change;
\* a pass the change superseded adds no key when its mutation settles.
C24_OnlyKeysOfNewContext == processedKeys \subseteq issuedKeys

\* C25: if from some point on neither the family nor the snapshot changes
\* and every pending mutation settles, then in the end no pass is running
\* and every bill of the snapshot that autopay may settle has had its
\* mutation issued in this family context and has its key among the
\* processed keys.
C25_EligibleEventuallyAttempted == <>[][familyId' = familyId /\ bills' = bills]_vars => <>[](passes = <<>> /\ \A i \in 1..Len(bills) : (familyId # NoFamily /\ StatedEligible(bills[i])) => (StatedKey(bills[i]) \in issuedKeys /\ StatedKey(bills[i]) \in processedKeys))

\* C26: once the user's click has set an autopay bill to unpaid for its
\* current period, no step of the same family context issues an autopay
\* mutation for that bill and period.
C26_NoResettleAfterManualUnpaid == [][\A m \in unpaidByUser : m.written => lastEvent'.key # m.key]_vars

\* The periods a bill can be settled for in the runs of the day sheet.
SheetPeriods == {PeriodText(2024, m0) : m0 \in 0..11}

\* C27: a toggle of a monthly bill that reaches the store changes the
\* derived status of the bill for no period other than the viewed period
\* of a click in flight for that bill: settled for q before means settled
\* for q after.
C27_OtherPeriodsUntouched == [][lastEvent'.kind = "toggle-ok" => \A f \in Families : \A k \in 1..Len(store[f]) : store[f][k].recurrence = "monthly" => \A q \in SheetPeriods \ {t.currentYYYYMM : t \in {toggles[i] : i \in {i \in 1..Len(toggles) : toggles[i].id = store[f][k].id}}} : (store'[f][k].paidForMonth = q) = (store[f][k].paidForMonth = q)]_vars

\* C28: no bill has two manual paid-state mutations in flight at once: a
\* second click for a bill cannot be issued before the first has settled.
C28_OneToggleInFlightPerBill == \A i, j \in 1..Len(toggles) : toggles[i].id = toggles[j].id => i = j

\* The calendar's name for a badge of the dashboard.
StatusOfBadge == [PAID |-> "paid", OVERDUE |-> "overdue", UNPAID |-> "unpaid"]

\* C29: while the calendar shows the current month, every event carries
\* the classification (paid, overdue, unpaid) that the badge of its bill
\* shows on the dashboard.
C29_CalendarAgreesWithBadge == (viewedYear = now.y /\ viewedMonth = now.m) => \A e \in AllEvents : e.status = StatusOfBadge[badgeLabel(e.bill)]

\* C29 witness: back on the current month after turning the calendar, with
\* an overdue monthly event and a paid one-time event whose badges read
\* OVERDUE and PAID.
C29_Witness == /\ viewedYear = now.y /\ viewedMonth = now.m
               /\ lastEvent.kind = "month"
               /\ \E e \in AllEvents : e.bill.recurrence = "monthly" /\ e.status = "overdue" /\ badgeLabel(e.bill) = "OVERDUE"
               /\ \E e \in AllEvents : e.bill.recurrence = "null" /\ e.status = "paid" /\ badgeLabel(e.bill) = "PAID"

\* C30: whenever delete mode is off, no bill is selected.
C30_NoSelectionOutsideDeleteMode == ~isDeleteMode => selectedBillIds = {}

\* C30 witness: a confirmed deletion of a ticked bill went through: the
\* bill has left the store, delete mode is off and nothing is selected.
C30_Witness == /\ lastEvent.kind = "delete-ok"
               /\ Len(store["f1"]) = 1
               /\ ~isDeleteMode /\ selectedBillIds = {} /\ ~deleteBusy

(***************************************************************************)
(* Properties of the add-bill form (SpecAddBill).                          *)
(***************************************************************************)
\* C5: a bill whose autopay was never switched on gets no autopay
\* mutation: every mutation in flight is for a bill that carries
\* autopay = true and was added while the user had the autopay control
\* ticked by hand, and every bill the form hands to addBill carries
\* autopay = false unless the user ticked the control.
C5_NeverSwitchedOnNeverAutopaid == /\ \A k \in 1..Len(passes) : passes[k].snap[passes[k].idx].autopay = "true" /\ passes[k].snap[passes[k].idx].id \in optedInIds
                                   /\ \A k \in 1..Len(adds) : adds[k].bill.autopay => adds[k].optedIn


\* The fields of the form as the user left them are not fit for a bill:
\* the name is empty or blank, the amount is no number, the account
\* suffix has digits but not four, or the bill is monthly and the day of
\* month is none of 1..31.
StatedInvalid == \/ \A i \in 1..Len(billName) : billName[i] = " "
                 \/ \E i \in 1..Len(billAmount) : billAmount[i] \notin {"0", "1", "2", "3", "4", "5", "6", "7", "8", "9"}
                 \/ Len(accountLast4) \notin {0, 4}
                 \/ billType = "monthly" /\ billDayOfMonth \notin {IF n < 10 THEN <<TwoDigits[n + 1][2]>> ELSE TwoDigits[n + 1] : n \in 1..31}

\* C19: a submit of the add-bill form whose name is empty after trimming,
\* whose amount is not a finite number, whose account suffix is neither
\* empty nor four digits, or whose day of month (monthly) is outside 1..31
\* sets a validation error, calls addBill not at all, leaves the fields of
\* the form and the modal as they are, and ends with the busy flag down.
C19_InvalidSubmitRejected == [][HandleAddBill /\ StatedInvalid => /\ billError' \in {"Bill name is required", "Amount must be a valid number", "Account Last 4 must be exactly 4 digits", "Day of month must be between 1 and 31"}
                                                                  /\ adds' = adds
                                                                  /\ store' = store
                                                                  /\ <<billName', billAmount', billType', billDueDate', billDayOfMonth', autopay', accountLast4'>> = <<billName, billAmount, billType, billDueDate, billDayOfMonth, autopay, accountLast4>>
                                                                  /\ isAddBillModalOpen' = isAddBillModalOpen
                                                                  /\ billBusy' = FALSE]_vars

\* C19 witness: a monthly bill named "a" with day of month 32 was
\* submitted: the error is shown, the form is open as filled in, nothing
\* is on its way to the store and the form is not busy.
C19_Witness == /\ lastEvent.kind = "invalid"
               /\ billName = <<"a">> /\ billType = "monthly" /\ billDayOfMonth = <<"3", "2">>
               /\ billError = "Day of month must be between 1 and 31"
               /\ isAddBillModalOpen /\ ~billBusy /\ adds = <<>>

====
